---- MODULE Spec2Model ----
(***************************************************************************)
(* A model of the real-estate backend: the query-time engine of ml.py      *)
(* (get_comps, get_estimate) behind the FastAPI routers, and the cleaning  *)
(* pipeline of data_cleaner.py as chained by train_model.clean().          *)
(*                                                                         *)
(* Numbers.  Money is kept exact: prices are whole currency units, the     *)
(* model's estimate is an integer number of thousandths ("milli"), and the *)
(* values returned after round(x, 2) are integer cents.  Log-space         *)
(* predictions are integers in millionths.  Feature-matrix cells are kept  *)
(* doubled so that a median of an even number of integers stays integral.  *)
(***************************************************************************)
EXTENDS Integers, Sequences, FiniteSets, TLC

VARIABLES
    df,             \* loader.get_df(): the canonical dataset, a sequence of rows
    model,          \* loader.get_model(): "model" or "None"
    scaler_exists,  \* whether model/scaler.joblib is on disk
    scaler_cache,   \* ml._scaler_cache: "None" or "scaler"
    resp,           \* the response of the last query
    cleaner,        \* the DataCleaner of train_model.clean(): its df and log
    pc,             \* the stage clean() runs next; "done" or "raised" at its end
    raw,            \* the frame handed to clean()
    method,         \* the outlier policy remove_outliers was called with
    cleaned,        \* the frame clean() returned
    dd,             \* repeated remove_duplicates: [cleaner, hash]
    call,           \* one function called on its own: its arguments and result
    loader          \* the files of the loader, the caches of get_df and get_model

vars == <<df, model, scaler_exists, scaler_cache, resp, cleaner, pc, raw, method, cleaned, dd,
          call, loader>>

queryVars == <<df, model, scaler_exists, scaler_cache, resp>>
cleanVars == <<cleaner, pc, raw, method, cleaned>>

(***************************************************************************)
(* Bounds of the model.                                                    *)
(***************************************************************************)
MaxRows == 3        \* rows of a dataset at query time
MaxN == 4           \* largest requested number of comps
MaxRawRows == 4     \* rows of a frame handed to clean()
MaxDupRows == 3     \* rows of a frame handed to remove_duplicates alone
MaxPasses == 2      \* consecutive remove_duplicates calls on one cleaner
MaxOutlierRows == 4 \* rows of a frame handed to remove_outliers alone
MaxJsonRows == 3    \* records of a data file handed to _load_and_clean
MaxPage == 4        \* largest page asked of GET /listings
MaxPerPage == 2     \* largest per_page asked of GET /listings
MaxCalls == 4       \* calls of get_df and get_model in one process
MaxPriceTokens == 5 \* tokens of a description handed to PriceExtractor.extract
MaxAreaTokens == 4  \* tokens of a description handed to AreaExtractor.extract_best

(***************************************************************************)
(* Generic helpers.                                                        *)
(***************************************************************************)
NaN == -999999      \* a missing numeric value (float NaN / None)

IsNa(v) == v = NaN

Abs(x) == IF x < 0 THEN -x ELSE x

Range(s) == {s[i] : i \in 1..Len(s)}

SetMin(S) == CHOOSE x \in S : \A y \in S : x <= y

SetMax(S) == CHOOSE x \in S : \A y \in S : x >= y

RECURSIVE Gcd(_, _)
Gcd(a, b) == IF b = 0 THEN a ELSE Gcd(b, a % b)

Lcm(a, b) == (a * b) \div Gcd(a, b)

RECURSIVE LcmOf(_)
LcmOf(S) == IF S = {} THEN 1 ELSE LET x == CHOOSE y \in S : TRUE IN Lcm(x, LcmOf(S \ {x}))

RECURSIVE SumOver(_, _)
SumOver(f, S) == IF S = {} THEN 0 ELSE LET x == CHOOSE y \in S : TRUE IN f[x] + SumOver(f, S \ {x})

Perms(n) == {p \in [1..n -> 1..n] : \A i, j \in 1..n : i # j => p[i] # p[j]}

\* s[:n] of Python for n >= 0
Take(s, n) == [i \in 1..(IF n < Len(s) THEN n ELSE Len(s)) |-> s[i]]

(***************************************************************************)
(* The canonical dataset (loader._load_and_clean).                         *)
(***************************************************************************)
\* The listings a dataset is drawn from: the columns the loader leaves in
\* the frame, under the names its rename table gives them.
ListingRows ==
    { [price |-> 117106, sqm |-> 75, beds |-> 2, baths |-> 1, floor |-> 3,
       has_elevator |-> 1, has_parking_space |-> 0, distance_from_center |-> 1,
       total_rooms |-> 3, neighborhood_cluster |-> 0, dist_to_nearest_center |-> 1,
       furnished |-> TRUE, neighborhood |-> "Cluster 0"],
      [price |-> 95814, sqm |-> 55, beds |-> 1, baths |-> 1, floor |-> NaN,
       has_elevator |-> 0, has_parking_space |-> 0, distance_from_center |-> 3,
       total_rooms |-> 2, neighborhood_cluster |-> 1, dist_to_nearest_center |-> 2,
       furnished |-> FALSE, neighborhood |-> "Cluster 1"],
      [price |-> 45000, sqm |-> 40, beds |-> 1, baths |-> 1, floor |-> 1,
       has_elevator |-> 0, has_parking_space |-> 0, distance_from_center |-> 4,
       total_rooms |-> 2, neighborhood_cluster |-> 2, dist_to_nearest_center |-> 2,
       furnished |-> FALSE, neighborhood |-> "Cluster 2"] }

\* Ids that count from "1".
AssignIdsFromOne(rows) ==
    [i \in 1..Len(rows) |-> [id |-> ToString(i)] @@ rows[i]]

\* df["id"] = df.index.astype(str) after reset_index: the decimal string of
\* the row's position, counted from 0.
AssignIds(rows) ==
    [i \in 1..Len(rows) |-> [id |-> ToString(i - 1)] @@ rows[i]]

Datasets ==
    {AssignIds(rows) : rows \in UNION {[1..k -> ListingRows] : k \in 1..MaxRows}}

\* The listing ids a client may ask for: every position a dataset can have,
\* one past the largest, and an id no dataset has.
RequestIds == {ToString(i) : i \in 0..MaxRows} \cup {"9999"}

(***************************************************************************)
(* ml.py: the feature matrix.                                              *)
(***************************************************************************)
FEATURE_COLS ==
    << "area_sqm", "floor", "bedrooms", "bathrooms",
       "has_elevator", "has_parking_space",
       "distance_from_center", "total_rooms",
       "neighborhood_cluster", "dist_to_nearest_center" >>

\* Series.median(), doubled: NaN entries are skipped; NaN when none is left.
Median2(vals) ==
    LET S == {i \in 1..Len(vals) : ~IsNa(vals[i])}
        k == Cardinality(S)
        \* the number of entries strictly before i in sorted order
        rank(i) == Cardinality({j \in S : vals[j] < vals[i] \/ (vals[j] = vals[i] /\ j < i)})
        at(r) == vals[CHOOSE i \in S : rank(i) = r]
    IN  IF k = 0 THEN NaN
        ELSE IF k % 2 = 1 THEN 2 * at(k \div 2)
        ELSE at(k \div 2 - 1) + at(k \div 2)

\* _build_feature_matrix: one row of ten doubled cells per row of d.  A
\* column of FEATURE_COLS the frame has is NaN-filled with its median over d;
\* a column the frame lacks is 0.0.
BuildFeatureMatrix(d) ==
    LET column(col) == [i \in 1..Len(d) |-> d[i][col]]
        cell(i, col) ==
            IF col \in DOMAIN d[i]
            THEN IF IsNa(d[i][col]) THEN Median2(column(col)) ELSE 2 * d[i][col]
            ELSE 0
    IN  [i \in 1..Len(d) |-> [c \in 1..Len(FEATURE_COLS) |-> cell(i, FEATURE_COLS[c])]]

(***************************************************************************)
(* ml.get_comps.                                                           *)
(***************************************************************************)
\* row_mask.any()
Resolves(d, listing_id) == \E i \in 1..Len(d) : d[i].id = listing_id

\* df.index[row_mask][0]: the first row whose id matches
TargetPos(d, listing_id) ==
    SetMin({i \in 1..Len(d) : d[i].id = listing_id})

\* The distance of every row to row t on the min-max normalised matrix, as a
\* sort key <<class, value>>: class 0 is a finite distance, whose value is
\* the squared distance over a denominator common to all rows; class 1 is
\* +inf; class 2 is NaN, which comes out when a column is NaN throughout.
Dists(d, t) ==
    LET matrix == BuildFeatureMatrix(d)
        C == 1..Len(FEATURE_COLS)
        colvals(c) == {matrix[i][c] : i \in 1..Len(d)}
        nancol(c) == \E v \in colvals(c) : IsNa(v)
        col_min(c) == SetMin(colvals(c))
        col_range(c) ==
            IF SetMax(colvals(c)) - col_min(c) = 0 THEN 2
            ELSE SetMax(colvals(c)) - col_min(c)
        L == LcmOf({col_range(c) : c \in C})
        term(i) == [c \in C |->
                      LET x == (matrix[i][c] - matrix[t][c]) * (L \div col_range(c))
                      IN  x * x]
    IN  [i \in 1..Len(d) |->
            IF i = t THEN <<1, 0>>                         \* dists[idx] = np.inf
            ELSE IF \E c \in C : nancol(c) THEN <<2, 0>>
            ELSE <<0, SumOver(term(i), C)>>]

KeyLeq(a, b) == a[1] < b[1] \/ (a[1] = b[1] /\ a[2] <= b[2])

\* np.argsort(dists): a permutation of the positions that sorts the keys.
\* The default sort kind is not stable, so equal keys come in any order.
ArgSorts(dists) ==
    {p \in Perms(Len(dists)) :
        \A i \in 1..(Len(dists) - 1) : KeyLeq(dists[p[i]], dists[p[i + 1]])}

\* The ids get_comps may return for a resolvable listing_id: one list for
\* each outcome of the sort.
\* A get_comps whose loop reads df.iloc[idx], the target's row, for every
\* neighbour instead of df.iloc[i].
GetCompsTargetRow(d, listing_id, n) ==
    LET t == TargetPos(d, listing_id)
    IN  {[k \in DOMAIN Take(p, n) |-> d[t].id] : p \in ArgSorts(Dists(d, t))}

GetComps(d, listing_id, n) ==
    LET t == TargetPos(d, listing_id)
    IN  {[k \in DOMAIN Take(p, n) |-> d[p[k]].id] : p \in ArgSorts(Dists(d, t))}

(***************************************************************************)
(* ml.get_estimate.                                                        *)
(***************************************************************************)
\* The thresholds and the band of ml.py, in percent.
OVERPRICED_THRESHOLD == 110
UNDERPRICED_THRESHOLD == 90
RANGE_BAND == 8

\* The log-space predictions model.predict is taken to return, in millionths.
LogPreds == {-500000, 0, 9950, 95310, 693147, 10800000, 11575534}

\* np.expm1 on those predictions, in thousandths (nearest).
Expm1(log_pred) ==
    CASE log_pred = -500000   -> -393
      [] log_pred = 0         -> 0
      [] log_pred = 9950      -> 10
      [] log_pred = 95310     -> 100
      [] log_pred = 693147    -> 1000
      [] log_pred = 10800000  -> 49019801
      [] log_pred = 11575534  -> 106460000

\* round(x, 0) of the rational x = whole + num / den with 0 <= num < den:
\* to the nearest integer, a tie going to the even one.
RoundHalfEven(whole, num, den) ==
    IF 2 * num > den THEN whole + 1
    ELSE IF 2 * num < den THEN whole
    ELSE IF whole % 2 = 0 THEN whole ELSE whole + 1

\* round(estimated * pct / 100, 2) in cents, for estimated in thousandths.
RoundScaled(estimated, pct) ==
    LET a == estimated \div 1000
        b == estimated % 1000
    IN  RoundHalfEven(a * pct + (b * pct) \div 1000, (b * pct) % 1000, 1000)

\* The sign of x - pct/100 for x = actual / estimated (estimated in
\* thousandths, positive).
CmpQuotient(actual, estimated, pct) ==
    LET q  == estimated \div 1000
        r  == estimated % 1000
        X  == actual * 100 - pct * q - (pct * r) \div 1000
        Yr == (pct * r) % 1000
    IN  IF X > 0 THEN 1 ELSE IF X < 0 THEN -1 ELSE IF Yr = 0 THEN 0 ELSE -1

\* ratio = actual / estimated if estimated > 0 else 1.0, compared with
\* pct/100: 1 for greater, 0 for equal, -1 for less.
CmpRatio(actual, estimated, pct) ==
    IF estimated > 0 THEN CmpQuotient(actual, estimated, pct)
    ELSE IF 100 > pct THEN 1 ELSE IF 100 < pct THEN -1 ELSE 0

\* A labelling whose comparisons are >= and <= instead of > and <.
LabelInclusive(actual, estimated) ==
    IF CmpRatio(actual, estimated, OVERPRICED_THRESHOLD) >= 0 THEN "Overpriced"
    ELSE IF CmpRatio(actual, estimated, UNDERPRICED_THRESHOLD) <= 0 THEN "Underpriced"
    ELSE "Fair"

Label(actual, estimated) ==
    IF CmpRatio(actual, estimated, OVERPRICED_THRESHOLD) = 1 THEN "Overpriced"
    ELSE IF CmpRatio(actual, estimated, UNDERPRICED_THRESHOLD) = -1 THEN "Underpriced"
    ELSE "Fair"

\* get_estimate for a resolvable listing_id, given what model.predict returned.
GetEstimate(d, listing_id, log_pred) ==
    LET idx       == TargetPos(d, listing_id)
        estimated == Expm1(log_pred)
        actual    == d[idx].price
    IN  [estimated_price |-> RoundScaled(estimated, 100),
         range_low       |-> RoundScaled(estimated, 100 - RANGE_BAND),
         range_high      |-> RoundScaled(estimated, 100 + RANGE_BAND),
         label           |-> Label(actual, estimated)]

(***************************************************************************)
(* The routers: GET /listings/{id}/comps and GET /listings/{id}/estimate.  *)
(***************************************************************************)
NoBody ==
    [comps |-> <<>>, features |-> <<>>, log_pred |-> 0, estimated_price |-> 0,
     range_low |-> 0, range_high |-> 0, label |-> "",
     page |-> 0, per_page |-> 0, total |-> 0, pages |-> 0, listings |-> <<>>,
     filtered |-> <<>>, filter |-> <<>>, body |-> <<>>]

NoResponse ==
    [kind |-> "none", listing_id |-> "", n |-> 0, status |-> 0] @@ NoBody

Failure(kind, listing_id, n, status) ==
    [kind |-> kind, listing_id |-> listing_id, n |-> n, status |-> status] @@ NoBody

\* A router whose "except Exception" clause comes first and so also takes
\* the KeyError.
NotFoundAsServerError(kind, listing_id, n) == Failure(kind, listing_id, n, 500)

\* except KeyError as e: raise HTTPException(status_code=404, detail=str(e))
NotFound(kind, listing_id, n) == Failure(kind, listing_id, n, 404)

\* routers/comps.py: comps().  Requests are served one at a time: the next
\* one is taken up once the response of the last one was sent.
CompsRequest(listing_id, n) ==
    /\ resp.kind = "none"
    /\ \/ /\ ~Resolves(df, listing_id)                      \* KeyError -> 404
          /\ resp' = NotFound("comps", listing_id, n)
       \/ /\ Resolves(df, listing_id)
          /\ \E c \in GetComps(df, listing_id, n) :
                resp' = [kind |-> "comps", listing_id |-> listing_id, n |-> n,
                         status |-> 200, comps |-> c,
                         features |-> BuildFeatureMatrix(df)] @@ NoBody
    /\ UNCHANGED <<df, model, scaler_exists, scaler_cache>>

\* routers/estimates.py: estimate()
EstimateRequest(listing_id) ==
    /\ resp.kind = "none"
    /\ \/ /\ model = "None"                                 \* 503
          /\ resp' = Failure("estimate", listing_id, 0, 503)
          /\ UNCHANGED scaler_cache
       \/ /\ model # "None"
          /\ ~Resolves(df, listing_id)                      \* KeyError -> 404
          /\ resp' = NotFound("estimate", listing_id, 0)
          /\ UNCHANGED scaler_cache
       \/ /\ model # "None"
          /\ Resolves(df, listing_id)
          /\ scaler_cache = "None"
          /\ ~scaler_exists                                 \* FileNotFoundError -> 500
          /\ resp' = Failure("estimate", listing_id, 0, 500)
          /\ UNCHANGED scaler_cache
       \/ /\ model # "None"
          /\ Resolves(df, listing_id)
          /\ scaler_cache # "None" \/ scaler_exists
          /\ scaler_cache' = "scaler"
          /\ \E log_pred \in LogPreds :
                resp' = [kind |-> "estimate", listing_id |-> listing_id, n |-> 0,
                         status |-> 200, comps |-> <<>>, log_pred |-> log_pred,
                         features |-> BuildFeatureMatrix(<<df[TargetPos(df, listing_id)]>>)]
                        @@ GetEstimate(df, listing_id, log_pred)
    /\ UNCHANGED <<df, model, scaler_exists>>

(***************************************************************************)
(* listing_service and market_service behind their routers.                *)
(***************************************************************************)
\* str.lower() on the neighborhood names of the model
LowerName(name) ==
    CASE name = "Cluster 0" -> "cluster 0" [] name = "Cluster 1" -> "cluster 1"
      [] name = "Cluster 2" -> "cluster 2" [] name = "CLUSTER 1" -> "cluster 1"
      [] OTHER -> name

\* The query parameters of GET /listings; NaN or "None" is a parameter left
\* out.  q, has_elevator, has_parking_space, has_garden and property_type
\* are always left out.
NoFilter ==
    [min_price |-> NaN, max_price |-> NaN, min_beds |-> NaN, max_beds |-> NaN,
     min_baths |-> NaN, max_baths |-> NaN, min_sqm |-> NaN, max_sqm |-> NaN,
     furnished |-> "None", neighborhood |-> "None", sort |-> "None"]

ListingFilters ==
    { NoFilter,
      [NoFilter EXCEPT !.sort = "price_asc"],
      [NoFilter EXCEPT !.sort = "price_desc", !.min_price = 50000],
      [NoFilter EXCEPT !.furnished = "false", !.max_beds = 1],
      [NoFilter EXCEPT !.neighborhood = "CLUSTER 1"],
      [NoFilter EXCEPT !.max_price = 40000] }

\* the mask of filter_listings on one row
Matches(r, f) ==
    /\ IsNa(f.min_price) \/ r.price >= f.min_price
    /\ IsNa(f.max_price) \/ r.price <= f.max_price
    /\ IsNa(f.min_beds)  \/ r.beds >= f.min_beds
    /\ IsNa(f.max_beds)  \/ r.beds <= f.max_beds
    /\ IsNa(f.min_baths) \/ r.baths >= f.min_baths
    /\ IsNa(f.max_baths) \/ r.baths <= f.max_baths
    /\ IsNa(f.min_sqm)   \/ r.sqm >= f.min_sqm
    /\ IsNa(f.max_sqm)   \/ r.sqm <= f.max_sqm
    /\ f.furnished = "None" \/ r.furnished = (f.furnished = "true")
    /\ f.neighborhood = "None"
          \/ LowerName(r.neighborhood) = LowerName(f.neighborhood)

\* filtered = df[mask].copy(), then sort_values("price"): every order the
\* sort may leave the rows in (rows of equal price in any order).
SortedFrames(d, f) ==
    LET masked == SelectSeq(d, LAMBDA r : Matches(r, f))
        n == Len(masked)
        ordered(p) ==
            \A i, j \in 1..n : i < j =>
                IF f.sort = "price_asc" THEN masked[p[i]].price <= masked[p[j]].price
                ELSE masked[p[i]].price >= masked[p[j]].price
    IN  IF f.sort \in {"price_asc", "price_desc"}
        THEN {[k \in 1..n |-> masked[p[k]]] : p \in {q \in Perms(n) : ordered(q)}}
        ELSE {masked}

\* filtered.iloc[offset: offset + per_page] for offset >= 0
Slice(rows, offset, per_page) ==
    LET stop == IF offset + per_page < Len(rows) THEN offset + per_page ELSE Len(rows)
    IN  [k \in 1..(IF stop > offset THEN stop - offset ELSE 0) |-> rows[offset + k]]

\* A page count that rounds down.
PageCountFloor(total, per_page) == total \div per_page

\* math.ceil(total / per_page) if total else 0
PageCount(total, per_page) ==
    IF total = 0 THEN 0 ELSE (total + per_page - 1) \div per_page

\* The rest of filter_listings, from the sorted frame on; a listing is
\* reported by its id.
Paginate(filtered, page, per_page) ==
    LET total   == Len(filtered)
        offset  == (page - 1) * per_page
        page_df == Slice(filtered, offset, per_page)
    IN  [total |-> total, page |-> page, per_page |-> per_page,
         pages |-> PageCount(total, per_page),
         listings |-> [k \in 1..Len(page_df) |-> page_df[k].id]]

\* routers/listings.py: list_listings()
ListingsRequest(f, page, per_page) ==
    /\ resp.kind = "none"
    /\ \E filtered \in SortedFrames(df, f) :
          resp' = [kind |-> "listings", listing_id |-> "", n |-> 0, status |-> 200,
                   filter |-> f,
                   filtered |-> [k \in 1..Len(filtered) |-> filtered[k].id]]
                  @@ Paginate(filtered, page, per_page) @@ NoBody
    /\ UNCHANGED <<df, model, scaler_exists, scaler_cache>>

\* routers/listings.py: listing_detail()
ListingDetailRequest(listing_id) ==
    /\ resp.kind = "none"
    /\ IF Resolves(df, listing_id)
       THEN resp' = [kind |-> "detail", listing_id |-> listing_id, n |-> 0,
                     status |-> 200, body |-> df[TargetPos(df, listing_id)]] @@ NoBody
       ELSE resp' = NotFound("detail", listing_id, 0)
    /\ UNCHANGED <<df, model, scaler_exists, scaler_cache>>

\* get_filter_options
FilterOptions(d) ==
    LET col(c) == {d[i][c] : i \in 1..Len(d)}
    IN  [neighborhoods |-> col("neighborhood"),
         price_range |-> <<SetMin(col("price")), SetMax(col("price"))>>,
         sqm_range   |-> <<SetMin(col("sqm")), SetMax(col("sqm"))>>,
         beds_range  |-> <<SetMin(col("beds")), SetMax(col("beds"))>>,
         baths_range |-> <<SetMin(col("baths")), SetMax(col("baths"))>>]

\* routers/listings.py: filter_options()
FilterOptionsRequest ==
    /\ resp.kind = "none"
    /\ resp' = [kind |-> "options", listing_id |-> "", n |-> 0, status |-> 200,
                body |-> FilterOptions(df)] @@ NoBody
    /\ UNCHANGED <<df, model, scaler_exists, scaler_cache>>

\* round(num / den, 2) in cents, for num >= 0 and den > 0
RoundCents(num, den) ==
    LET whole == num \div den
        rem   == num % den
    IN  RoundHalfEven(100 * whole + (100 * rem) \div den, (100 * rem) % den, den)

\* tmp["price_per_sqm"] = tmp["price"] / tmp["sqm"].replace(0, np.nan), the
\* quotient kept as the pair <<price, sqm>>
WithPricePerSqm(d) ==
    [i \in 1..Len(d) |->
        [price_per_sqm |-> IF d[i].sqm = 0 THEN <<NaN, 1>> ELSE <<d[i].price, d[i].sqm>>]
        @@ d[i]]

\* A frame whose rows a callee works on under the name tmp, as the caller
\* sees it afterwards, written to in place where tmp is the frame itself.
SharedAfterAliased(d, tmp) == tmp

\* tmp = df.copy(): what the callee writes to tmp stays in the copy, and the
\* caller's frame is as it was.
SharedAfter(d, tmp) == d

\* get_market_insights: every result it may return (neighborhoods of equal
\* average in either order).
MarketInsights(d) ==
    LET tmp == WithPricePerSqm(d)
        I == {i \in 1..Len(tmp) : ~IsNa(tmp[i].price_per_sqm[1])}
        L == LcmOf({tmp[i].price_per_sqm[2] : i \in I})
        pps == [i \in I |-> tmp[i].price_per_sqm[1] * (L \div tmp[i].price_per_sqm[2])]
        names == {tmp[i].neighborhood : i \in 1..Len(tmp)}
        rows(nb) == {i \in 1..Len(tmp) : tmp[i].neighborhood = nb}
        with_pps(nb) == rows(nb) \cap I
        sum_pps(nb) == SumOver(pps, with_pps(nb))
        sum_price(nb) == SumOver([i \in rows(nb) |-> tmp[i].price], rows(nb))
        shown == {nb \in names : with_pps(nb) # {}}
        insight(nb) ==
            [neighborhood |-> nb,
             avg_price_per_sqm |-> RoundCents(sum_pps(nb), L * Cardinality(with_pps(nb))),
             avg_price |-> RoundCents(sum_price(nb), Cardinality(rows(nb))),
             listing_count |-> Cardinality(rows(nb))]
        descending(o) ==
            \A i, j \in 1..Len(o) : i < j =>
                sum_pps(o[i]) * Cardinality(with_pps(o[j]))
                    >= sum_pps(o[j]) * Cardinality(with_pps(o[i]))
        k == Cardinality(shown)
        orders == {o \in [1..k -> shown] :
                      /\ \A i, j \in 1..k : i # j => o[i] # o[j]
                      /\ descending(o)}
        ppsSeq == [j \in 1..Len(tmp) |-> IF j \in I THEN pps[j] ELSE NaN]
    IN  {[overall_median_price |-> 50 * Median2([i \in 1..Len(tmp) |-> tmp[i].price]),
          overall_median_price_per_sqm |-> RoundCents(Median2(ppsSeq), 2 * L),
          neighborhood_count |-> k,
          neighborhoods |-> [j \in 1..k |-> insight(o[j])]] : o \in orders}

\* routers/market.py: market_insights()
MarketInsightsRequest ==
    /\ resp.kind = "none"
    /\ \E m \in MarketInsights(df) :
          resp' = [kind |-> "market", listing_id |-> "", n |-> 0, status |-> 200,
                   body |-> m] @@ NoBody
    /\ df' = SharedAfter(df, WithPricePerSqm(df))
    /\ UNCHANGED <<model, scaler_exists, scaler_cache>>

\* The response goes out to the client and the handler returns.
SendResponse ==
    /\ resp.kind # "none"
    /\ resp' = NoResponse
    /\ UNCHANGED <<df, model, scaler_exists, scaler_cache>>

(***************************************************************************)
(* extractors.py, on descriptions as sequences of tokens.  A token is      *)
(* [w, v, len]: its text, its numeric value (NaN when it is no number) and *)
(* its number of word characters.                                          *)
(***************************************************************************)
Num(w, v, len) == [w |-> w, v |-> v, len |-> len]
Word(w, len) == [w |-> w, v |-> NaN, len |-> len]

\* str.lower() on the token texts the descriptions below are made of
LowerStr(w) ==
    CASE w = "Bruto" -> "bruto" [] w = "Bright" -> "bright"
      [] w = "Apartment" -> "apartment" [] OTHER -> w

Lower(text) == [i \in 1..Len(text) |-> [text[i] EXCEPT !.w = LowerStr(text[i].w)]]

IsCurrency(tok) == tok.w \in {"€", "euro"}
IsPer(tok) == tok.w \in {"/", "per"}
IsM2(tok) == tok.w \in {"m2", "m²"}
IsM(tok) == tok.w \in {"m", "m2"}
IsNumber(tok) == ~IsNa(tok.v)

IsBeginsWithM(tok) == tok.w \in {"m", "m2", "m²"}

\* The descriptions of the model hold whole numbers only, and no comma or
\* point next to a digit: float() of a matched group is then the group's
\* digits with the white space taken out.

\* A run of digits starts at a number, and at the 2 of "m2".
StartsDigits(tok) == IsNumber(tok) \/ tok.w = "m2"
FirstDigits(tok) == IF IsNumber(tok) THEN tok.v ELSE 2

RECURSIVE Pow10(_)
Pow10(n) == IF n = 0 THEN 1 ELSE 10 * Pow10(n - 1)

\* The group (\d+[\s,]*\d*) matched from token i on: the digits at i and,
\* the quantifiers being greedy, the number after them when one follows.
\* v is float() of the group, next the token after the group.
Group(text, i) ==
    IF i < Len(text) /\ IsNumber(text[i + 1])
    THEN [v |-> FirstDigits(text[i]) * Pow10(text[i + 1].len) + text[i + 1].v,
          next |-> i + 2]
    ELSE [v |-> FirstDigits(text[i]), next |-> i + 1]

\* PriceExtractor.extract: <<price, type>>; <<NaN, "None">> for (None, None).
PriceExtract(description) ==
    LET text == Lower(description)
        n == Len(text)
        per_sqm == {i \in 1..n :
                      /\ StartsDigits(text[i])
                      /\ LET k == Group(text, i).next
                         IN  /\ k + 2 <= n
                             /\ IsCurrency(text[k]) /\ IsPer(text[k + 1])
                             /\ IsM2(text[k + 2])}
        matches == {i \in 2..n : IsCurrency(text[i - 1]) /\ IsNumber(text[i])}
    IN  IF per_sqm # {} THEN <<Group(text, SetMin(per_sqm)).v, "per_sqm">>
        ELSE IF matches # {}
        THEN LET price == Group(text, SetMax(matches)).v
             IN  IF price > 100 THEN <<price, "total">> ELSE <<NaN, "None">>
        ELSE <<NaN, "None">>

\* AreaExtractor._parse: the value when it is plausible, else None
AreaParse(v) == IF 15 < v /\ v < 300 THEN v ELSE NaN

\* The token after a match of (\d+[\s,]*\.?\d*)\s*m2?\s*<kind> that starts
\* at token i; 0 when there is no match at i.
AreaMatchEnd(text, i, kind) ==
    IF ~StartsDigits(text[i]) THEN 0
    ELSE LET k == Group(text, i).next
         IN  IF k + 1 <= Len(text) /\ IsM(text[k]) /\ text[k + 1].w = kind
             THEN k + 2 ELSE 0

\* re.findall of that pattern: the groups of its matches from token i on,
\* left to right, no match starting inside an earlier one.
RECURSIVE AreaFindAll(_, _, _)
AreaFindAll(text, i, kind) ==
    IF i > Len(text) THEN {}
    ELSE IF AreaMatchEnd(text, i, kind) = 0 THEN AreaFindAll(text, i + 1, kind)
    ELSE {Group(text, i).v} \cup AreaFindAll(text, AreaMatchEnd(text, i, kind), kind)

\* re.findall of bruto\s*[:\s]*(\d+[\s,]*\.?\d*)\s*m2?
BrutoFirstFindAll(text) ==
    {Group(text, i).v : i \in {j \in 2..Len(text) :
        /\ text[j - 1].w = "bruto" /\ IsNumber(text[j])
        /\ Group(text, j).next <= Len(text)
        /\ IsBeginsWithM(text[Group(text, j).next])}}

\* AreaExtractor.extract_best: <<area, kind>>; <<NaN, "None">> for (None, None).
AreaExtractBest(description) ==
    LET text == Lower(description)
        vals(S) == {AreaParse(v) : v \in S} \ {NaN}
        bruto1 == AreaFindAll(text, 1, "bruto")
        bruto2 == BrutoFirstFindAll(text)
        neto   == AreaFindAll(text, 1, "neto")
    IN  IF vals(bruto1) # {} THEN <<SetMax(vals(bruto1)), "bruto">>
        ELSE IF vals(bruto2) # {} THEN <<SetMax(vals(bruto2)), "bruto">>
        ELSE IF vals(neto) # {} THEN <<SetMax(vals(neto)), "neto">>
        ELSE <<NaN, "None">>

(***************************************************************************)
(* data_cleaner.py: DataCleaner.  A cleaner is [df, log]; df is a sequence *)
(* of rows, each with its index label idx.  Prices and prices per area are *)
(* integers in 1/PriceUnit of a currency unit, which keeps the quantiles,  *)
(* the bounds and the capped prices exact; room counts are kept doubled.   *)
(***************************************************************************)
PriceUnit == 8 * 80

Gt(v, x) == ~IsNa(v) /\ v > x
Ge(v, x) == ~IsNa(v) /\ v >= x
Lt(v, x) == ~IsNa(v) /\ v < x
Le(v, x) == ~IsNa(v) /\ v <= x

RECURSIVE Filter(_, _)
Filter(rows, keep) ==
    IF rows = <<>> THEN <<>>
    ELSE IF Head(rows).idx \in keep THEN <<Head(rows)>> \o Filter(Tail(rows), keep)
    ELSE Filter(Tail(rows), keep)

Labels(rows) == {rows[i].idx : i \in 1..Len(rows)}

Where(rows, Test(_)) == {rows[i].idx : i \in {j \in 1..Len(rows) : Test(rows[j])}}

\* _log_change (the timestamp is left out)
LogChange(log, type, count) == Append(log, [type |-> type, count |-> count])

\* DataCleaner.__init__
NewCleaner(frame) == [df |-> frame, original_df |-> frame, log |-> <<>>]

\* standardize_formats: description.str.lower()
StandardizeFormats(c) ==
    [c EXCEPT !.df = [i \in 1..Len(c.df) |->
                        [c.df[i] EXCEPT !.description = Lower(c.df[i].description)]]]

\* handle_missing: bedrooms and bathrooms filled with the column median
HandleMissing(c) ==
    LET col(name) == [i \in 1..Len(c.df) |-> c.df[i][name]]
        fill(v, name) == IF IsNa(v) THEN
                            (IF IsNa(Median2(col(name))) THEN NaN ELSE Median2(col(name)) \div 2)
                         ELSE v
    IN  [c EXCEPT !.df = [i \in 1..Len(c.df) |->
                            [c.df[i] EXCEPT !.bedrooms  = fill(@, "bedrooms"),
                                            !.bathrooms = fill(@, "bathrooms")]]]

\* check_impossible_values
CheckImpossibleValues(c) ==
    LET bad_price == Where(c.df, LAMBDA r : Le(r.price_eur, 0))
        df1 == IF bad_price # {}
               THEN Filter(c.df, Where(c.df, LAMBDA r : Gt(r.price_eur, 0)))
               ELSE c.df
        bad_area == Where(df1, LAMBDA r : Le(r.area_sqm, 0))
        df2 == IF bad_area # {}
               THEN Filter(df1, Where(df1, LAMBDA r : Gt(r.area_sqm, 0)))
               ELSE df1
        bad_beds == Where(df2, LAMBDA r : Lt(r.bedrooms, 0))
        df3 == IF bad_beds # {}
               THEN Filter(df2, Where(df2, LAMBDA r : Ge(r.bedrooms, 0)))
               ELSE df2
        log1 == IF bad_price # {}
                THEN LogChange(c.log, "removed_negative_price", Cardinality(bad_price))
                ELSE c.log
        log2 == IF bad_area # {}
                THEN LogChange(log1, "removed_zero_area", Cardinality(bad_area))
                ELSE log1
        log3 == IF bad_beds # {}
                THEN LogChange(log2, "removed_negative_bedrooms", Cardinality(bad_beds))
                ELSE log2
    IN  [c EXCEPT !.df = df3, !.log = log3]

\* filter_location's default box, in hundredths of a degree
LatMin == 4125
LatMax == 4145
LngMin == 1965
LngMax == 2000

\* filter_location
FilterLocation(c) ==
    LET kept == Filter(c.df, Where(c.df, LAMBDA r :
                    /\ Ge(r.lat, LatMin) /\ Le(r.lat, LatMax)
                    /\ Ge(r.lng, LngMin) /\ Le(r.lng, LngMax)))
    IN  [c EXCEPT !.df = kept,
                  !.log = LogChange(c.log, "location_filter", Len(c.df) - Len(kept))]

\* extract_areas
ExtractAreas(c) ==
    LET wants(r) == IsNa(r.area_sqm) \/ r.area_sqm <= 0
        area(r) == AreaExtractBest(r.description)[1]
        fills(r) == wants(r) /\ ~IsNa(area(r)) /\ area(r) # 0
    IN  [c EXCEPT
            !.df  = [i \in 1..Len(c.df) |->
                        IF fills(c.df[i]) THEN [c.df[i] EXCEPT !.area_sqm = area(c.df[i])]
                        ELSE c.df[i]],
            !.log = LogChange(c.log, "areas_extracted",
                              Cardinality(Where(c.df, LAMBDA r : fills(r))))]

\* An extract_prices that also overwrites at a disagreement of exactly 20%.
ExtractPricesFromTwentyPercent(c) ==
    LET got(r) == PriceExtract(r.description)
        new(r) == got(r)[1] * PriceUnit * r.area_sqm
        fixes(r) == /\ got(r)[2] = "per_sqm" /\ ~IsNa(got(r)[1]) /\ got(r)[1] # 0
                    /\ Gt(r.area_sqm, 0)
                    /\ Gt(r.price_eur, 0)
                    /\ Abs(new(r) - r.price_eur) * 5 >= r.price_eur
    IN  [c EXCEPT
            !.df  = [i \in 1..Len(c.df) |->
                        IF fixes(c.df[i]) THEN [c.df[i] EXCEPT !.price_eur = new(c.df[i])]
                        ELSE c.df[i]],
            !.log = LogChange(c.log, "prices_extracted",
                              Cardinality(Where(c.df, LAMBDA r : fixes(r))))]

\* extract_prices: the price is overwritten when the extractor gives a rate
\* that is truthy (not None, not 0.0), the area and the old price are above
\* 0 and abs(new - old) / old > 0.2.
ExtractPrices(c) ==
    LET got(r) == PriceExtract(r.description)
        new(r) == got(r)[1] * PriceUnit * r.area_sqm
        fixes(r) == /\ got(r)[2] = "per_sqm" /\ ~IsNa(got(r)[1]) /\ got(r)[1] # 0
                    /\ Gt(r.area_sqm, 0)
                    /\ Gt(r.price_eur, 0)
                    /\ Abs(new(r) - r.price_eur) * 5 > r.price_eur
    IN  [c EXCEPT
            !.df  = [i \in 1..Len(c.df) |->
                        IF fixes(c.df[i]) THEN [c.df[i] EXCEPT !.price_eur = new(c.df[i])]
                        ELSE c.df[i]],
            !.log = LogChange(c.log, "prices_extracted",
                              Cardinality(Where(c.df, LAMBDA r : fixes(r))))]

\* The words of a description that remove_duplicates compares: \b\w{4,}\b
\* on the lower-cased text.
LongWords(description) ==
    {Lower(description)[i].w : i \in {j \in 1..Len(description) : description[j].len >= 4}}

\* A similarity test that also passes at exactly 0.8.
SimilarFromEightTenths(d1, d2) ==
    LET w1 == LongWords(d1)
        w2 == LongWords(d2)
    IN  /\ w1 # {} /\ w2 # {}
        /\ Cardinality(w1 \cap w2) * 10 >= 8 * Cardinality(w1 \cup w2)

\* len(w1 & w2) / len(w1 | w2) > 0.8, for non-empty w1 and w2
Similar(d1, d2) ==
    LET w1 == LongWords(d1)
        w2 == LongWords(d2)
    IN  /\ w1 # {} /\ w2 # {}
        /\ Cardinality(w1 \cap w2) * 10 > 8 * Cardinality(w1 \cup w2)

\* A drop rule that removes the row visited second, whatever its label.
DropOfVisitedSecond(idx1, idx2) == idx2

\* The row a duplicate pair loses: to_drop.add(max(idx1, idx2))
DropOf(idx1, idx2) == IF idx1 >= idx2 THEN idx1 ELSE idx2

\* df['_sig'], for a row without NaN in price and area; h is Python's hash
\* of the lower-cased description, already reduced mod 10000
Sig(r, h) ==
    h[Lower(r.description)]
    + (r.price_eur \div (5000 * PriceUnit)) * 100000
    + (r.area_sqm \div 10) * 1000000

\* A to_drop collected over every pair of rows, whatever their signatures.
ToDropAcrossBuckets(rows, h) ==
    {DropOf(rows[i].idx, rows[j].idx) :
        <<i, j>> \in {q \in (1..Len(rows)) \X (1..Len(rows)) :
                        /\ q[1] < q[2]
                        /\ Similar(rows[q[1]].description, rows[q[2]].description)}}

\* The labels remove_duplicates collects in to_drop: every pair of rows of a
\* signature group, in the order the group holds them.
ToDrop(rows, h) ==
    {DropOf(rows[i].idx, rows[j].idx) :
        <<i, j>> \in {q \in (1..Len(rows)) \X (1..Len(rows)) :
                        /\ q[1] < q[2]
                        /\ Sig(rows[q[1]], h) = Sig(rows[q[2]], h)
                        /\ Similar(rows[q[1]].description, rows[q[2]].description)}}

\* .astype(int) raises on a column that holds a NaN
RemoveDuplicatesRaises(c) ==
    \E i \in 1..Len(c.df) : IsNa(c.df[i].price_eur) \/ IsNa(c.df[i].area_sqm)

\* remove_duplicates, when it does not raise
RemoveDuplicates(c, h) ==
    LET to_drop == ToDrop(c.df, h)
    IN  [c EXCEPT !.df  = Filter(c.df, Labels(c.df) \ to_drop),
                  !.log = LogChange(c.log, "duplicates_removed", Cardinality(to_drop))]

\* Series.quantile(k/4) with linear interpolation over the non-NaN values
Quantile(vals, k) ==
    LET S == {i \in 1..Len(vals) : ~IsNa(vals[i])}
        n == Cardinality(S)
        rank(i) == Cardinality({j \in S : vals[j] < vals[i] \/ (vals[j] = vals[i] /\ j < i)})
        at(r) == vals[CHOOSE i \in S : rank(i) = r]
        lo == (k * (n - 1)) \div 4
        w  == (k * (n - 1)) % 4
    IN  IF n = 0 THEN NaN
        ELSE IF w = 0 THEN at(lo)
        ELSE at(lo) + (w * (at(lo + 1) - at(lo))) \div 4

\* price_eur / area_sqm
PricePerSqm(r) ==
    IF IsNa(r.price_eur) \/ IsNa(r.area_sqm) \/ r.area_sqm = 0 THEN NaN
    ELSE r.price_eur \div r.area_sqm

\* remove_outliers' default multiplier, in tenths
StdMult == 25

\* <<Q1, Q3, lower, upper>> of remove_outliers
\* Bounds with the two signs exchanged: Q1 + k*IQR and Q3 - k*IQR.
OutlierBoundsInward(rows, std_mult) ==
    LET pps == [i \in 1..Len(rows) |-> PricePerSqm(rows[i])]
        Q1  == Quantile(pps, 1)
        Q3  == Quantile(pps, 3)
        IQR == Q3 - Q1
    IN  IF IsNa(Q1) THEN <<NaN, NaN, NaN, NaN>>
        ELSE <<Q1, Q3, Q1 + (std_mult * IQR) \div 10, Q3 - (std_mult * IQR) \div 10>>

OutlierBounds(rows, std_mult) ==
    LET pps == [i \in 1..Len(rows) |-> PricePerSqm(rows[i])]
        Q1  == Quantile(pps, 1)
        Q3  == Quantile(pps, 3)
        IQR == Q3 - Q1
    IN  IF IsNa(Q1) THEN <<NaN, NaN, NaN, NaN>>
        ELSE <<Q1, Q3, Q1 - (std_mult * IQR) \div 10, Q3 + (std_mult * IQR) \div 10>>

\* A remove_outliers that also takes the rows at the two bounds for outliers.
RemoveOutliersAtBounds(c, std_mult, how) ==
    LET b == OutlierBounds(c.df, std_mult)
        lower == b[3]
        upper == b[4]
        with_pps == [i \in 1..Len(c.df) |->
                        [c.df[i] EXCEPT !.price_per_sqm = PricePerSqm(c.df[i])]]
        below(r) == ~IsNa(lower) /\ Le(r.price_per_sqm, lower)
        above(r) == ~IsNa(upper) /\ Ge(r.price_per_sqm, upper)
        is_outlier == Where(with_pps, LAMBDA r : below(r) \/ above(r))
        capped(r) == IF below(r) THEN lower ELSE IF above(r) THEN upper ELSE r.price_per_sqm
        recomputed(r) == IF IsNa(capped(r)) \/ IsNa(r.area_sqm) THEN NaN
                         ELSE capped(r) * r.area_sqm
    IN  IF how = "delete"
        THEN [c EXCEPT !.df  = Filter(with_pps, Labels(with_pps) \ is_outlier),
                       !.log = LogChange(c.log, "outliers_deleted", Cardinality(is_outlier))]
        ELSE IF how = "cap"
        THEN [c EXCEPT
                 !.df  = [i \in 1..Len(with_pps) |->
                            [with_pps[i] EXCEPT !.price_per_sqm = capped(with_pps[i]),
                                                !.price_eur = recomputed(with_pps[i])]],
                 !.log = LogChange(c.log, "outliers_capped", Cardinality(is_outlier))]
        ELSE IF how = "flag"
        THEN [c EXCEPT
                 !.df  = [i \in 1..Len(with_pps) |->
                            [with_pps[i] EXCEPT !.is_outlier = (with_pps[i].idx \in is_outlier)]],
                 !.log = LogChange(c.log, "outliers_flagged", Cardinality(is_outlier))]
        ELSE [c EXCEPT !.df = with_pps]

\* remove_outliers
RemoveOutliers(c, std_mult, how) ==
    LET b == OutlierBounds(c.df, std_mult)
        lower == b[3]
        upper == b[4]
        with_pps == [i \in 1..Len(c.df) |->
                        [c.df[i] EXCEPT !.price_per_sqm = PricePerSqm(c.df[i])]]
        below(r) == ~IsNa(lower) /\ Lt(r.price_per_sqm, lower)
        above(r) == ~IsNa(upper) /\ Gt(r.price_per_sqm, upper)
        is_outlier == Where(with_pps, LAMBDA r : below(r) \/ above(r))
        capped(r) == IF below(r) THEN lower ELSE IF above(r) THEN upper ELSE r.price_per_sqm
        recomputed(r) == IF IsNa(capped(r)) \/ IsNa(r.area_sqm) THEN NaN
                         ELSE capped(r) * r.area_sqm
    IN  IF how = "delete"
        THEN [c EXCEPT !.df  = Filter(with_pps, Labels(with_pps) \ is_outlier),
                       !.log = LogChange(c.log, "outliers_deleted", Cardinality(is_outlier))]
        ELSE IF how = "cap"
        THEN [c EXCEPT
                 !.df  = [i \in 1..Len(with_pps) |->
                            [with_pps[i] EXCEPT !.price_per_sqm = capped(with_pps[i]),
                                                !.price_eur = recomputed(with_pps[i])]],
                 !.log = LogChange(c.log, "outliers_capped", Cardinality(is_outlier))]
        ELSE IF how = "flag"
        THEN [c EXCEPT
                 !.df  = [i \in 1..Len(with_pps) |->
                            [with_pps[i] EXCEPT !.is_outlier = (with_pps[i].idx \in is_outlier)]],
                 !.log = LogChange(c.log, "outliers_flagged", Cardinality(is_outlier))]
        ELSE [c EXCEPT !.df = with_pps]

\* validate_ranges' default windows
AreaLow == 15
AreaHigh == 300
PriceLow == 10000
PriceHigh == 2000000

\* validate_ranges
ValidateRanges(c) ==
    LET kept == Filter(c.df, Where(c.df, LAMBDA r :
                    /\ Ge(r.area_sqm, AreaLow) /\ Le(r.area_sqm, AreaHigh)
                    /\ Ge(r.price_eur, PriceLow * PriceUnit)
                    /\ Le(r.price_eur, PriceHigh * PriceUnit)))
    IN  [c EXCEPT !.df  = kept,
                  !.log = LogChange(c.log, "range_validation", Len(c.df) - Len(kept))]

\* finalize: the frame it returns (the description column is dropped)
Finalize(c) ==
    LET kept == Filter(c.df, Where(c.df, LAMBDA r : Gt(r.area_sqm, 0)))
    IN  [i \in 1..Len(kept) |->
            [kept[i] EXCEPT !.price_per_sqm = PricePerSqm(kept[i]), !.description = <<>>]]

\* A finalize that returns self.original_df, the frame as it was handed in.
FinalizeReturnOriginal(c) == c.original_df

\* finalize: what it leaves in self.df (the description column is dropped)
FinalizeReturn(c) == c.df

(***************************************************************************)
(* train_model.clean(): the raw frames and the stage chain.                *)
(***************************************************************************)
DescPlain ==
    << Word("Bright", 6), Word("apartment", 9), Word("near", 4),
       Word("center", 6), Word("blloku", 6) >>

DescRate ==
    << Word("apartment", 9), Num("80", 80, 2), Word("m2", 2), Word("Bruto", 5),
       Num("900", 900, 3), Word("€", 0), Word("/", 0), Word("m2", 2) >>

\* str(NaN): what astype(str) makes of a missing description
DescNan == << Word("nan", 3) >>

RawRow(price, area, beds, lat, description) ==
    [price_eur |-> IF IsNa(price) THEN NaN ELSE price * PriceUnit,
     area_sqm |-> area, bedrooms |-> beds, bathrooms |-> 2,
     lat |-> lat, lng |-> 1982, description |-> description,
     price_per_sqm |-> NaN, is_outlier |-> FALSE]

RawRows ==
    { RawRow(80000, 80, 4, 4133, DescPlain),     \* sound
      RawRow(16000, 80, 2, 4133, DescNan),       \* sound, low price per area
      RawRow(90000, 80, NaN, 4200, DescPlain),   \* outside the box
      RawRow(0, 80, 4, 4133, DescPlain),         \* price zero
      RawRow(50000, -20, 2, 4133, DescNan),      \* area negative
      RawRow(NaN, 40, 2, 4133, DescPlain),       \* price missing
      RawRow(40000, NaN, 2, 4133, DescRate) }    \* area missing, described

AssignIndex(rows) == [i \in 1..Len(rows) |-> [idx |-> i - 1] @@ rows[i]]

RawFrames ==
    {AssignIndex(rows) : rows \in UNION {[1..k -> RawRows] : k \in 1..MaxRawRows}}

\* hash(x) % 10000 of the lower-cased descriptions: any function; two of
\* the residues are enough for descriptions to collide or not
Hashes(descriptions) == [{Lower(d) : d \in descriptions} -> {0, 1}]

OutlierMethods == {"delete", "cap", "flag"}

\* df["description"] = description_col: the original text, by index label
RestoreDescription(frame, original) ==
    [i \in 1..Len(frame) |->
        [frame[i] EXCEPT !.description =
            original[CHOOSE j \in 1..Len(original) : original[j].idx = frame[i].idx].description]]

Step(stage, next, c) ==
    /\ pc = stage
    /\ cleaner' = c
    /\ pc' = next
    /\ UNCHANGED <<raw, method, cleaned>>

StandardizeFormatsStep ==
    Step("standardize_formats", "handle_missing", StandardizeFormats(cleaner))

HandleMissingStep ==
    Step("handle_missing", "check_impossible_values", HandleMissing(cleaner))

\* A chain that leaves check_impossible_values out.
CheckImpossibleValuesStepSkipped ==
    Step("check_impossible_values", "filter_location", cleaner)

CheckImpossibleValuesStep ==
    Step("check_impossible_values", "filter_location", CheckImpossibleValues(cleaner))

FilterLocationStep ==
    Step("filter_location", "extract_areas", FilterLocation(cleaner))

ExtractAreasStep ==
    Step("extract_areas", "extract_prices", ExtractAreas(cleaner))

ExtractPricesStep ==
    Step("extract_prices", "remove_duplicates", ExtractPrices(cleaner))

RemoveDuplicatesStep ==
    /\ pc = "remove_duplicates"
    /\ \/ /\ RemoveDuplicatesRaises(cleaner)
          /\ pc' = "raised"
          /\ UNCHANGED cleaner
       \/ /\ ~RemoveDuplicatesRaises(cleaner)
          /\ \E h \in Hashes({DescPlain, DescRate, DescNan}) :
                cleaner' = RemoveDuplicates(cleaner, h)
          /\ pc' = "remove_outliers"
    /\ UNCHANGED <<raw, method, cleaned>>

RemoveOutliersStep ==
    /\ pc = "remove_outliers"
    /\ \E how \in OutlierMethods :
          /\ method' = how
          /\ cleaner' = RemoveOutliers(cleaner, StdMult, how)
    /\ pc' = "validate_ranges"
    /\ UNCHANGED <<raw, cleaned>>

ValidateRangesStep ==
    Step("validate_ranges", "finalize", ValidateRanges(cleaner))

FinalizeStep ==
    /\ pc = "finalize"
    /\ cleaner' = [cleaner EXCEPT !.df = Finalize(cleaner)]
    /\ cleaned' = RestoreDescription(FinalizeReturn(cleaner'), raw)
    /\ pc' = "done"
    /\ UNCHANGED <<raw, method>>

(***************************************************************************)
(* remove_duplicates called again and again on one cleaner.                *)
(***************************************************************************)
DescRenovated == Append(Lower(DescPlain), Word("renovated", 9))
DescBalcony == Append(Lower(DescPlain), Word("balcony", 7))
DescShort == SubSeq(Lower(DescPlain), 1, 4)

DupRows ==
    { RawRow(80000, 80, 4, 4133, Lower(DescPlain)),
      RawRow(80000, 80, 4, 4133, DescRenovated),
      RawRow(80000, 80, 4, 4133, DescBalcony),
      RawRow(80000, 80, 4, 4133, DescShort),
      RawRow(86000, 80, 4, 4133, DescRenovated) }

DupFrames ==
    {AssignIndex(rows) : rows \in UNION {[1..k -> DupRows] : k \in 1..MaxDupRows}}

RemoveDuplicatesAgain ==
    /\ Len(dd.cleaner.log) < MaxPasses
    /\ dd' = [dd EXCEPT !.cleaner = RemoveDuplicates(dd.cleaner, dd.hash)]
    /\ UNCHANGED <<queryVars, cleanVars, call, loader>>

(***************************************************************************)
(* The specifications.                                                     *)
(***************************************************************************)
(***************************************************************************)
(* loader._load_and_clean on the records of a data file.                   *)
(***************************************************************************)
FURNISHED_TRUE == {"fully_furnished", "partially_furnished"}

\* The zone keywords of _TIRANA_ZONES that descriptions of the model hold.
TIRANA_ZONES == <<"blloku", "bllok", "kombinat">>

\* _extract_address.  None of the labelled patterns ("Adresa:", "Zona:",
\* "Lokacioni:", "Ndodhet tek", "Rruga") occurs in a description of the
\* model, so the keyword scan decides; the result is the keyword as the
\* text spells it, title-cased.
ExtractAddress(description) ==
    LET words == {Lower(description)[i].w : i \in 1..Len(description)}
        hits  == {k \in 1..Len(TIRANA_ZONES) : TIRANA_ZONES[k] \in words}
    IN  IF description = <<>> \/ hits = {} THEN "None"
        ELSE TIRANA_ZONES[SetMin(hits)]

\* A record's missing description is <<>> and its missing status "None".
DescNull == <<>>

\* f"Cluster {int(c)}" if pd.notna(c) else "Unknown"
Neighborhood(c) == IF IsNa(c) THEN "Unknown" ELSE "Cluster " \o ToString(c)

JsonRow(price, status, cluster, distance, description) ==
    [price_eur |-> price, area_sqm |-> 60, bedrooms |-> NaN, bathrooms |-> NaN,
     furnishing_status |-> status, neighborhood_cluster |-> cluster,
     distance_from_center |-> distance, description |-> description]

JsonRows ==
    { JsonRow(90000, "fully_furnished", 0, 1, DescPlain),
      JsonRow(90000, "unfurnished", 0, 5, DescNull),
      JsonRow(70000, "partially_furnished", 1, 1, DescPlain),
      JsonRow(70000, "None", 1, 5, DescNull),
      JsonRow(50000, "unfurnished", 2, 3, DescNull),
      JsonRow(50000, "unfurnished", NaN, 3, DescNull),
      JsonRow(NaN, "unfurnished", 0, 1, DescNull) }

JsonFiles == UNION {[1..k -> JsonRows] : k \in 0..MaxJsonRows}

\* _load_and_clean: rename by _COL_MAP, drop the rows without price or sqm,
\* renumber, fill beds and baths, derive furnished, neighborhood, address
\* and id.
LoadAndClean(records) ==
    LET kept == {i \in 1..Len(records) :
                    ~IsNa(records[i].price_eur) /\ ~IsNa(records[i].area_sqm)}
        pos(k) == CHOOSE i \in kept : Cardinality({j \in kept : j < i}) = k - 1
        row(k) ==
            LET r == records[pos(k)]
            IN  [price |-> r.price_eur, sqm |-> r.area_sqm,
                 beds |-> IF IsNa(r.bedrooms) THEN 0 ELSE r.bedrooms,
                 baths |-> IF IsNa(r.bathrooms) THEN 0 ELSE r.bathrooms,
                 furnishing_status |-> r.furnishing_status,
                 furnished |-> r.furnishing_status \in FURNISHED_TRUE,
                 furnished_numeric |-> IF r.furnishing_status \in FURNISHED_TRUE THEN 1 ELSE 0,
                 neighborhood_cluster |-> r.neighborhood_cluster,
                 distance_from_center |-> r.distance_from_center,
                 neighborhood |-> Neighborhood(r.neighborhood_cluster),
                 description |-> r.description,
                 address |-> ExtractAddress(r.description)]
    IN  AssignIds([k \in 1..Cardinality(kept) |-> row(k)])

\* A file that holds no record gives a frame without columns, and
\* dropna(subset=["price", "sqm"]) raises KeyError on it.
LoadAndCleanRaises(records) == records = <<>>

LoadAndCleanCall ==
    /\ call.fn = "_load_and_clean"
    /\ ~call.done
    /\ call' = IF LoadAndCleanRaises(call.records)
                THEN [call EXCEPT !.raised = TRUE, !.done = TRUE]
                ELSE [call EXCEPT !.df = LoadAndClean(call.records), !.done = TRUE]
    /\ UNCHANGED <<queryVars, cleanVars, dd, loader>>

\* remove_outliers called on its own, with any multiplier (in tenths) and
\* any policy.
OutlierRows ==
    { RawRow(80000, 80, 2, 4133, DescNan),       \* 1000 per sqm
      RawRow(16000, 80, 2, 4133, DescNan),       \* 200 per sqm
      RawRow(320000, 80, 2, 4133, DescNan),      \* 4000 per sqm
      RawRow(48000, 40, 2, 4133, DescNan),       \* 1200 per sqm
      RawRow(NaN, 40, 2, 4133, DescNan) }        \* price missing

OutlierFrames ==
    {AssignIndex(rows) : rows \in UNION {[1..k -> OutlierRows] : k \in 0..MaxOutlierRows}}

Multipliers == {0, 10, StdMult}

RemoveOutliersCall ==
    /\ call.fn = "remove_outliers"
    /\ ~call.done
    /\ call' = [call EXCEPT
                   !.bounds = OutlierBounds(call.cleaner.df, call.std_mult),
                   !.cleaner = RemoveOutliers(call.cleaner, call.std_mult, call.method),
                   !.done = TRUE]
    /\ UNCHANGED <<queryVars, cleanVars, dd, loader>>

\* extract_prices called on a frame of its own, once or again.  The rate
\* description gives 900 per sqm, 72000 for 80 sqm: 60000 and 90000 are off
\* by exactly 20%, 59000 by more, 70000 by less.
DescRateOnly ==
    << Word("apartment", 9), Num("900", 900, 3), Word("€", 0), Word("/", 0),
       Word("m2", 2) >>

\* "cmimi 1.000 €/m2": the pattern matches from the digits after the dot,
\* and float("000") is 0.0
DescRateZero ==
    << Word("cmimi", 5), Word("1.", 0), Num("000", 0, 3), Word("€", 0),
       Word("/", 0), Word("m2", 2) >>

MaxPriceRows == 2

PriceRows ==
    { RawRow(price, area, 2, 4133, description) :
        price \in {NaN, 0, 59000, 60000, 70000, 90000},
        area \in {NaN, 0, 80},
        description \in {DescPlain, DescRateOnly, DescRateZero} }

PriceFrames ==
    {AssignIndex(rows) : rows \in UNION {[1..k -> PriceRows] : k \in 1..MaxPriceRows}}

ExtractPricesCall ==
    /\ call.fn = "extract_prices"
    /\ call.calls < MaxPasses
    /\ call' = [call EXCEPT !.before = call.cleaner.df,
                            !.cleaner = ExtractPrices(call.cleaner),
                            !.calls = @ + 1]
    /\ UNCHANGED <<queryVars, cleanVars, dd, loader>>

(***************************************************************************)
(* ml.py: what get_comps reports of one comp.  Coordinates are in          *)
(* thousandths of a degree, distances in metres.                           *)
(***************************************************************************)
\* _haversine_km.  Every listing of the model lies on one meridian, where
\* the great circle is the meridian arc, 111.195 km to the degree; a NaN
\* coordinate makes every term NaN, and no exception.
HaversineM(lat1, lon1, lat2, lon2) ==
    IF IsNa(lat1) \/ IsNa(lon1) \/ IsNa(lat2) \/ IsNa(lon2) THEN NaN
    ELSE (Abs(lat2 - lat1) * 111195) \div 1000

\* km is None
NoneKm == -1

\* _distance_label; every comparison with NaN is False.
DistanceLabel(m) ==
    IF m = NoneKm THEN "Nearby"
    ELSE IF ~IsNa(m) /\ m < 1000 THEN "< 1 km"
    ELSE IF ~IsNa(m) /\ m < 3000 THEN "1-3 km"
    ELSE IF ~IsNa(m) /\ m < 7000 THEN "3-7 km"
    ELSE "> 7 km"

\* The distance label of get_comps: float() of a NaN cell does not raise, so
\* the except branch is taken for no row of a numeric column.
DistLabel(target, comp_row, has_coords) ==
    IF has_coords
    THEN DistanceLabel(HaversineM(target.latitude, target.longitude,
                                  comp_row.latitude, comp_row.longitude))
    ELSE DistanceLabel(NoneKm)

BedsPhrase(beds_t, beds_c) ==
    IF Abs(beds_t - beds_c) = 0 THEN <<"same number of bedrooms">>
    ELSE IF Abs(beds_t - beds_c) = 1 THEN <<"similar bedroom count">>
    ELSE <<>>

\* A size phrase whose limits take the 10% and the 20% in.
SizePhraseInclusive(sqm_t, sqm_c) ==
    LET t == IF sqm_t = 0 THEN 1 ELSE sqm_t
        c == IF sqm_c = 0 THEN 1 ELSE sqm_c
        den == IF t > 1 THEN t ELSE 1
    IN  IF 10 * Abs(t - c) <= den THEN <<"very similar size">>
        ELSE IF 5 * Abs(t - c) <= den THEN <<"similar size">>
        ELSE <<>>

\* sqm_diff_pct = abs(sqm_t - sqm_c) / max(sqm_t, 1), against 0.10 and 0.20
SizePhrase(sqm_t, sqm_c) ==
    LET t == IF sqm_t = 0 THEN 1 ELSE sqm_t
        c == IF sqm_c = 0 THEN 1 ELSE sqm_c
        den == IF t > 1 THEN t ELSE 1
    IN  IF 10 * Abs(t - c) < den THEN <<"very similar size">>
        ELSE IF 5 * Abs(t - c) < den THEN <<"similar size">>
        ELSE <<>>

\* int() of a NaN cluster raises ValueError, which is caught.
ClusterPhrase(cluster_t, cluster_c) ==
    IF ~IsNa(cluster_t) /\ ~IsNa(cluster_c) /\ cluster_t = cluster_c
    THEN <<"same neighborhood cluster">>
    ELSE <<>>

\* ", ".join(parts)
RECURSIVE Join(_)
Join(parts) ==
    IF parts = <<>> THEN ""
    ELSE IF Len(parts) = 1 THEN parts[1]
    ELSE parts[1] \o ", " \o Join(Tail(parts))

\* str.capitalize() of a phrase of _similarity_reason: the first letter in
\* upper case, the others, lower case already, as they are.
CapitalizePhrase(phrase) ==
    CASE phrase = "same number of bedrooms" -> "Same number of bedrooms"
      [] phrase = "similar bedroom count" -> "Similar bedroom count"
      [] phrase = "very similar size" -> "Very similar size"
      [] phrase = "similar size" -> "Similar size"
      [] phrase = "same neighborhood cluster" -> "Same neighborhood cluster"
      [] phrase = "comparable overall features" -> "Comparable overall features"

\* _similarity_reason
SimilarityReason(target, comp) ==
    LET parts == BedsPhrase(target.beds, comp.beds) \o SizePhrase(target.sqm, comp.sqm)
                 \o ClusterPhrase(target.neighborhood_cluster, comp.neighborhood_cluster)
        said == IF parts = <<>> THEN <<"comparable overall features">> ELSE parts
    IN  Join(<<CapitalizePhrase(said[1])>> \o Tail(said))

\* The entry get_comps appends for one comp.
CompEntry(target, comp_row, has_coords) ==
    [id |-> comp_row.id, price |-> comp_row.price, sqm |-> comp_row.sqm,
     rooms |-> comp_row.beds + comp_row.baths,
     distance_label |-> DistLabel(target, comp_row, has_coords),
     similarity_reason |-> SimilarityReason(target, comp_row)]

\* Rows as the loader makes them: beds, baths and sqm are never missing.
Lng0 == 19820

CompRows ==
    { [id |-> "0", price |-> 90000, sqm |-> sqm, beds |-> beds, baths |-> 1,
       neighborhood_cluster |-> cluster, latitude |-> lat,
       longitude |-> IF IsNa(lat) THEN NaN ELSE Lng0] :
      sqm \in {100, 95, 90, 80}, beds \in {1, 2, 4}, cluster \in {0, NaN},
      lat \in {NaN, 41330, 41335, 41350, 41380, 41430} }

CompEntryCall ==
    /\ call.fn = "comp_entry"
    /\ ~call.done
    /\ call' = [call EXCEPT
                   !.entry = CompEntry(call.target, call.comp_row, call.has_coords),
                   !.done = TRUE]
    /\ UNCHANGED <<queryVars, cleanVars, dd, loader>>

(***************************************************************************)
(* The two extractors called on their own, on any short description.       *)
(***************************************************************************)
PriceTokens ==
    { Num("85", 85, 2), Num("900", 900, 3), Num("50", 50, 2),
      Word("€", 0), Word("/", 0), Word("m2", 2), Word("Apartment", 9) }

AreaTokens ==
    { Num("3", 3, 1), Num("15", 15, 2), Num("85", 85, 2), Num("120", 120, 3),
      Num("300", 300, 3), Word("m2", 2), Word("Bruto", 5), Word("neto", 4) }

PriceTexts == UNION {[1..k -> PriceTokens] : k \in 0..MaxPriceTokens}
AreaTexts == UNION {[1..k -> AreaTokens] : k \in 0..MaxAreaTokens}

ExtractCall ==
    /\ call.fn = "extract"
    /\ ~call.done
    /\ call' = [call EXCEPT !.result = PriceExtract(call.text), !.done = TRUE]
    /\ UNCHANGED <<queryVars, cleanVars, dd, loader>>

ExtractBestCall ==
    /\ call.fn = "extract_best"
    /\ ~call.done
    /\ call' = [call EXCEPT !.result = AreaExtractBest(call.text), !.done = TRUE]
    /\ UNCHANGED <<queryVars, cleanVars, dd, loader>>

(***************************************************************************)
(* loader.get_df and loader.get_model behind functools.lru_cache, and the  *)
(* files at DATA_PATH and MODEL_PATH, which anyone may replace or remove   *)
(* while the process runs.                                                 *)
(***************************************************************************)
DataFiles ==
    { <<JsonRow(90000, "fully_furnished", 0, 1, DescPlain)>>,
      <<JsonRow(90000, "fully_furnished", 0, 1, DescPlain),
        JsonRow(70000, "partially_furnished", 1, 1, DescPlain)>> }

ModelFiles == {"model_a", "model_b"}

NoFile == [exists |-> FALSE, content |-> <<>>]
NoArtifact == [exists |-> FALSE, content |-> "None"]
EmptyDfCache == [cached |-> FALSE, value |-> <<>>]
EmptyModelCache == [cached |-> FALSE, value |-> "None"]

\* A cache that never holds a result: every call runs the body.
LruHitNever(cache) == FALSE

\* lru_cache(maxsize=1) on a function without arguments: a hit once one
\* call has returned normally.
LruHit(cache) == cache.cached

\* get_df(): the cached frame; else FileNotFoundError when DATA_PATH does
\* not exist (an exception is not cached), else _load_and_clean(DATA_PATH),
\* cached.
GetDf ==
    /\ loader.calls < MaxCalls
    /\ IF LruHit(loader.df_cache)
       THEN loader' = [loader EXCEPT
                          !.calls = @ + 1,
                          !.last = [fn |-> "get_df", raised |-> FALSE],
                          !.df_returned = @ \cup {loader.df_cache.value}]
       ELSE IF ~loader.data_file.exists
       THEN loader' = [loader EXCEPT
                          !.calls = @ + 1,
                          !.last = [fn |-> "get_df", raised |-> TRUE],
                          !.reread = @ + (IF loader.df_returned = {} THEN 0 ELSE 1)]
       ELSE LET frame == LoadAndClean(loader.data_file.content)
            IN  loader' = [loader EXCEPT
                              !.calls = @ + 1,
                              !.last = [fn |-> "get_df", raised |-> FALSE],
                              !.df_cache = [cached |-> TRUE, value |-> frame],
                              !.reread = @ + (IF loader.df_returned = {} THEN 0 ELSE 1),
                              !.df_returned = @ \cup {frame}]
    /\ UNCHANGED <<queryVars, cleanVars, dd, call>>

\* get_model(): the cached result; else None when MODEL_PATH does not exist
\* (a normal return, so None is cached), else joblib.load(MODEL_PATH),
\* cached.
GetModel ==
    /\ loader.calls < MaxCalls
    /\ IF LruHit(loader.model_cache)
       THEN loader' = [loader EXCEPT
                          !.calls = @ + 1,
                          !.last = [fn |-> "get_model", raised |-> FALSE],
                          !.model_returned = @ \cup {loader.model_cache.value}]
       ELSE LET m == IF loader.model_file.exists THEN loader.model_file.content
                     ELSE "None"
            IN  loader' = [loader EXCEPT
                              !.calls = @ + 1,
                              !.last = [fn |-> "get_model", raised |-> FALSE],
                              !.model_cache = [cached |-> TRUE, value |-> m],
                              !.reread = @ + (IF loader.model_returned = {} THEN 0 ELSE 1),
                              !.model_returned = @ \cup {m}]
    /\ UNCHANGED <<queryVars, cleanVars, dd, call>>

\* The file at DATA_PATH is written, or replaced.
WriteDataFile(records) ==
    /\ loader.data_file # [exists |-> TRUE, content |-> records]
    /\ loader' = [loader EXCEPT !.data_file = [exists |-> TRUE, content |-> records]]
    /\ UNCHANGED <<queryVars, cleanVars, dd, call>>

RemoveDataFile ==
    /\ loader.data_file.exists
    /\ loader' = [loader EXCEPT !.data_file = NoFile]
    /\ UNCHANGED <<queryVars, cleanVars, dd, call>>

\* The file at MODEL_PATH is written, or replaced (train_model.py saves it).
WriteModelFile(artifact) ==
    /\ loader.model_file # [exists |-> TRUE, content |-> artifact]
    /\ loader' = [loader EXCEPT !.model_file = [exists |-> TRUE, content |-> artifact]]
    /\ UNCHANGED <<queryVars, cleanVars, dd, call>>

RemoveModelFile ==
    /\ loader.model_file.exists
    /\ loader' = [loader EXCEPT !.model_file = NoArtifact]
    /\ UNCHANGED <<queryVars, cleanVars, dd, call>>

\* A process that has called neither function, over the files it finds.
NewLoader(data_file, model_file) ==
    [data_file |-> data_file, model_file |-> model_file,
     df_cache |-> EmptyDfCache, model_cache |-> EmptyModelCache,
     last |-> [fn |-> "none", raised |-> FALSE], calls |-> 0,
     df_returned |-> {}, model_returned |-> {}, reread |-> 0]

IdleQuery ==
    /\ df = <<>>
    /\ model = "None"
    /\ scaler_exists = FALSE
    /\ scaler_cache = "None"
    /\ resp = NoResponse

IdleClean ==
    /\ raw = <<>>
    /\ cleaner = NewCleaner(<<>>)
    /\ pc = "idle"
    /\ method = "unset"
    /\ cleaned = <<>>

IdleDedup ==
    dd = [cleaner |-> NewCleaner(<<>>), hash |-> <<>>]

IdleCall ==
    call = [fn |-> "none"]

IdleLoader ==
    loader = NewLoader(NoFile, NoArtifact)

\* The query engine: the process after its dataset and model were loaded.
Init ==
    /\ df \in Datasets
    /\ model \in {"None", "model"}
    /\ scaler_exists \in BOOLEAN
    /\ scaler_cache = "None"
    /\ resp = NoResponse
    /\ IdleClean
    /\ IdleDedup
    /\ IdleCall
    /\ IdleLoader

Next ==
    \/ \E listing_id \in RequestIds, n \in 0..MaxN :
          CompsRequest(listing_id, n) /\ UNCHANGED <<cleanVars, dd, call, loader>>
    \/ \E listing_id \in RequestIds :
          EstimateRequest(listing_id) /\ UNCHANGED <<cleanVars, dd, call, loader>>
    \/ \E f \in ListingFilters, page \in 1..MaxPage, per_page \in 1..MaxPerPage :
          ListingsRequest(f, page, per_page) /\ UNCHANGED <<cleanVars, dd, call, loader>>
    \/ \E listing_id \in RequestIds :
          ListingDetailRequest(listing_id) /\ UNCHANGED <<cleanVars, dd, call, loader>>
    \/ FilterOptionsRequest /\ UNCHANGED <<cleanVars, dd, call, loader>>
    \/ MarketInsightsRequest /\ UNCHANGED <<cleanVars, dd, call, loader>>
    \/ SendResponse /\ UNCHANGED <<cleanVars, dd, call, loader>>

Spec == Init /\ [][Next]_vars

\* train_model.clean() on a raw frame.
InitClean ==
    /\ raw \in RawFrames
    /\ cleaner = NewCleaner(raw)
    /\ pc = "standardize_formats"
    /\ method = "unset"
    /\ cleaned = <<>>
    /\ IdleQuery
    /\ IdleDedup
    /\ IdleCall
    /\ IdleLoader

NextClean ==
    /\ \/ StandardizeFormatsStep
       \/ HandleMissingStep
       \/ CheckImpossibleValuesStep
       \/ FilterLocationStep
       \/ ExtractAreasStep
       \/ ExtractPricesStep
       \/ RemoveDuplicatesStep
       \/ RemoveOutliersStep
       \/ ValidateRangesStep
       \/ FinalizeStep
    /\ UNCHANGED <<queryVars, dd, call, loader>>

SpecClean == InitClean /\ [][NextClean]_vars

\* remove_duplicates, repeated, under one hash function.
InitDedup ==
    /\ \E frame \in DupFrames, h \in Hashes({r.description : r \in DupRows}) :
          dd = [cleaner |-> NewCleaner(frame), hash |-> h]
    /\ IdleQuery
    /\ IdleClean
    /\ IdleCall
    /\ IdleLoader

NextDedup == RemoveDuplicatesAgain

SpecDedup == InitDedup /\ [][NextDedup]_vars

\* remove_outliers on a frame of its own.
InitOutliers ==
    /\ \E frame \in OutlierFrames, k \in Multipliers, how \in OutlierMethods :
          call = [fn |-> "remove_outliers", cleaner |-> NewCleaner(frame),
                  std_mult |-> k, method |-> how, bounds |-> <<>>, done |-> FALSE]
    /\ IdleQuery
    /\ IdleClean
    /\ IdleDedup
    /\ IdleLoader

NextOutliers == RemoveOutliersCall

SpecOutliers == InitOutliers /\ [][NextOutliers]_vars

\* _load_and_clean on a data file.
InitLoad ==
    /\ \E records \in JsonFiles :
          call = [fn |-> "_load_and_clean", records |-> records, df |-> <<>>,
                  raised |-> FALSE, done |-> FALSE]
    /\ IdleQuery
    /\ IdleClean
    /\ IdleDedup
    /\ IdleLoader

NextLoad == LoadAndCleanCall

SpecLoad == InitLoad /\ [][NextLoad]_vars

\* extract_prices on a frame of its own.
InitPrices ==
    /\ \E frame \in PriceFrames :
          call = [fn |-> "extract_prices", cleaner |-> NewCleaner(frame),
                  before |-> frame, calls |-> 0]
    /\ IdleQuery
    /\ IdleClean
    /\ IdleDedup
    /\ IdleLoader

NextPrices == ExtractPricesCall

SpecPrices == InitPrices /\ [][NextPrices]_vars

\* PriceExtractor.extract on a description.
InitExtract ==
    /\ \E text \in PriceTexts :
          call = [fn |-> "extract", text |-> text, result |-> <<NaN, "None">>,
                  done |-> FALSE]
    /\ IdleQuery
    /\ IdleClean
    /\ IdleDedup
    /\ IdleLoader

NextExtract == ExtractCall

SpecExtract == InitExtract /\ [][NextExtract]_vars

\* AreaExtractor.extract_best on a description.
InitExtractBest ==
    /\ \E text \in AreaTexts :
          call = [fn |-> "extract_best", text |-> text, result |-> <<NaN, "None">>,
                  done |-> FALSE]
    /\ IdleQuery
    /\ IdleClean
    /\ IdleDedup
    /\ IdleLoader

NextExtractBest == ExtractBestCall

SpecExtractBest == InitExtractBest /\ [][NextExtractBest]_vars

\* One comp of get_comps: a target, a comp, with or without the two
\* coordinate columns.
InitCompEntry ==
    /\ \E target \in CompRows, comp_row \in CompRows, has_coords \in BOOLEAN :
          call = [fn |-> "comp_entry", target |-> target, comp_row |-> comp_row,
                  has_coords |-> has_coords,
                  entry |-> CompEntry(comp_row, comp_row, FALSE), done |-> FALSE]
    /\ IdleQuery
    /\ IdleClean
    /\ IdleDedup
    /\ IdleLoader

NextCompEntry == CompEntryCall

SpecCompEntry == InitCompEntry /\ [][NextCompEntry]_vars

\* get_df and get_model called in any order while the files change.
InitLoader ==
    /\ \E records \in DataFiles, artifact \in ModelFiles,
          has_data \in BOOLEAN, has_model \in BOOLEAN :
          loader = NewLoader(IF has_data THEN [exists |-> TRUE, content |-> records]
                             ELSE NoFile,
                             IF has_model THEN [exists |-> TRUE, content |-> artifact]
                             ELSE NoArtifact)
    /\ IdleQuery
    /\ IdleClean
    /\ IdleDedup
    /\ IdleCall

NextLoader ==
    \/ GetDf
    \/ GetModel
    \/ \E records \in DataFiles : WriteDataFile(records)
    \/ RemoveDataFile
    \/ \E artifact \in ModelFiles : WriteModelFile(artifact)
    \/ RemoveModelFile

SpecLoader == InitLoader /\ [][NextLoader]_vars

(***************************************************************************)
(* The claims.                                                             *)
(***************************************************************************)
CompsAnswered == resp.kind = "comps" /\ resp.status = 200
EstimateAnswered == resp.kind = "estimate" /\ resp.status = 200
TargetRow == df[TargetPos(df, resp.listing_id)]

\* C1: for every dataset, resolvable target and requested count n (n at or
\* above the number of rows included), the list get_comps returns never
\* holds the target's own id.
C1_CompsExcludeTarget ==
    CompsAnswered => resp.listing_id \notin Range(resp.comps)

\* C2: for a dataset of s rows, a resolvable target and n >= 0, get_comps
\* returns exactly min(n, s - 1) comps.
C2_CompsCount ==
    CompsAnswered =>
        Len(resp.comps) = (IF resp.n < Len(df) - 1 THEN resp.n ELSE Len(df) - 1)

\* C3: with unique ids in the dataset, no listing id appears more than once
\* in one get_comps response.
C3_CompIdsUnique ==
    CompsAnswered =>
        \A i, j \in 1..Len(resp.comps) : i # j => resp.comps[i] # resp.comps[j]

\* C3 witness: a comps response that lists at least two comps, drawn from a
\* dataset in which two rows are equally far from the target.
C3_Witness ==
    /\ CompsAnswered
    /\ Len(resp.comps) >= 2
    /\ \E i, j \in 1..Len(df) :
          i # j /\ df[i].price = df[j].price /\ df[i].id # resp.listing_id
          /\ df[j].id # resp.listing_id

\* C4: for every resolvable listing and every log-price of the model, the
\* returned values satisfy range_low < estimated_price < range_high, strictly.
C4_RangeOrdered ==
    EstimateAnswered =>
        resp.range_low < resp.estimated_price /\ resp.estimated_price < resp.range_high

\* C5: with the band 0.08, the returned band is within 1% of the returned
\* estimate times 0.92 and 1.08: |range_low - est*0.92| / est < 0.01 and
\* |range_high - est*1.08| / est < 0.01 (all in cents; no quotient exists
\* for est = 0).
C5_BandSymmetric ==
    EstimateAnswered =>
        LET est == resp.estimated_price
        IN  /\ est # 0
            /\ est > 0 => /\ Abs(100 * resp.range_low - 92 * est) < est
                          /\ Abs(100 * resp.range_high - 108 * est) < est

\* C6, as stated: the label is decided by ratio = actual_price / estimate
\* alone: Overpriced iff ratio > 1.10, Underpriced iff ratio < 0.90, else
\* Fair (so Fair at exactly 1.10 and at exactly 0.90).  With the price in
\* currency units and the estimate in thousandths, ratio > 1.10 is
\* 10000 * price > 11 * estimate for a positive estimate, and the reverse
\* for a negative one.
C6_LabelFromRatio ==
    EstimateAnswered =>
        LET a == 10000 * TargetRow.price
            e == Expm1(resp.log_pred)
            over  == IF e > 0 THEN a > 11 * e ELSE a < 11 * e
            under == IF e > 0 THEN a < 9 * e ELSE a > 9 * e
        IN  e # 0 =>
              resp.label = (IF over THEN "Overpriced"
                            ELSE IF under THEN "Underpriced" ELSE "Fair")

\* C6, amended: the same for a positive estimate; for an estimate that is
\* not positive the ratio is taken to be 1.0 and the label is Fair.
C6_LabelFromGuardedRatio ==
    EstimateAnswered =>
        LET a == 10000 * TargetRow.price
            e == Expm1(resp.log_pred)
        IN  resp.label = (IF e > 0 /\ a > 11 * e THEN "Overpriced"
                          ELSE IF e > 0 /\ a < 9 * e THEN "Underpriced"
                          ELSE "Fair")

\* C6 witness: an estimate answered for a listing whose price is exactly
\* 1.10 times the estimate.
C6_Witness ==
    /\ EstimateAnswered
    /\ Expm1(resp.log_pred) > 0
    /\ 10000 * TargetRow.price = 11 * Expm1(resp.log_pred)

Unresolved == resp.kind \in {"comps", "estimate"} /\ ~Resolves(df, resp.listing_id)
NoPartialResult ==
    /\ resp.comps = <<>>
    /\ resp.label = ""
    /\ resp.estimated_price = 0 /\ resp.range_low = 0 /\ resp.range_high = 0

\* C7, as stated: whenever the target id resolves to no row, the comps query
\* and the valuation query both answer NotFound (HTTP 404) and carry no
\* partial result.
C7_UnresolvedIsNotFound ==
    Unresolved => resp.status = 404 /\ NoPartialResult

\* C7, amended: an unresolved id makes the comps query answer NotFound (404)
\* always, and the valuation query answer NotFound when a model is loaded
\* and ModelUnavailable (503) when none is; neither carries a partial
\* result; no step changes the dataset, the model or the scaler file; and a
\* comps query for a resolvable id succeeds in every state, the ones after a
\* failure included, as does a valuation query once model and scaler are
\* there.
C7_NotFoundWhenModelLoaded ==
    /\ [](/\ Unresolved => NoPartialResult
          /\ (Unresolved /\ resp.kind = "comps") => resp.status = 404
          /\ (Unresolved /\ resp.kind = "estimate") =>
                resp.status = (IF model = "None" THEN 503 ELSE 404)
          /\ (resp.kind = "comps" /\ Resolves(df, resp.listing_id)) =>
                resp.status = 200
          /\ (/\ resp.kind = "estimate" /\ Resolves(df, resp.listing_id)
              /\ model # "None" /\ scaler_cache # "None") => resp.status = 200)
    /\ [][df' = df /\ model' = model /\ scaler_exists' = scaler_exists]_vars

\* C7 witness: a valuation query for an id outside a non-empty dataset was
\* answered 404 while a model is loaded.
C7_Witness ==
    /\ Unresolved /\ resp.kind = "estimate" /\ resp.status = 404
    /\ model # "None" /\ Len(df) >= 1

\* C8: whenever no model or no scaler is loaded, the valuation query answers
\* ModelUnavailable (503), which is neither NotFound (404) nor the generic
\* failure (500), whether or not the id resolves.
C8_ModelUnavailable ==
    (/\ resp.kind = "estimate"
     /\ model = "None" \/ (scaler_cache = "None" /\ ~scaler_exists))
        => resp.status = 503

\* C9: once clean() has returned, every row of the cleaned dataset has
\* price > 0 and area > 0, for every raw frame and every outlier policy.
C9_CleanedPositive ==
    pc = "done" =>
        \A i \in 1..Len(cleaned) :
            /\ ~IsNa(cleaned[i].price_eur) /\ cleaned[i].price_eur > 0
            /\ ~IsNa(cleaned[i].area_sqm) /\ cleaned[i].area_sqm > 0

\* C9 witness: clean() returned a non-empty dataset from a raw frame that
\* held a row with a non-positive price and a row with a non-positive area.
C9_Witness ==
    /\ pc = "done"
    /\ Len(cleaned) >= 1
    /\ \E i, j \in 1..Len(raw) :
          /\ ~IsNa(raw[i].price_eur) /\ raw[i].price_eur <= 0
          /\ ~IsNa(raw[j].area_sqm) /\ raw[j].area_sqm <= 0

Reorder(rows, p) == [k \in 1..Len(rows) |-> rows[p[k]]]

\* C10: remove_duplicates is idempotent, a pass over its own output removes
\* no row, and the set of rows the first pass removes is the same whatever
\* the order in which the rows of a signature bucket are visited.
C10_DedupIdempotentOrderFree ==
    LET c == dd.cleaner
    IN  /\ \A k \in 2..Len(c.log) : c.log[k].count = 0
        /\ Len(c.log) = 1 =>
              \A p \in Perms(Len(c.original_df)) :
                  Labels(c.original_df)
                      \ ToDrop(Reorder(c.original_df, p), dd.hash) = Labels(c.df)

\* C10 witness: a first pass removed a row from a bucket of three rows and a
\* second pass has run over its output.
C10_Witness ==
    /\ Len(dd.cleaner.log) = 2
    /\ dd.cleaner.log[1].count >= 1
    /\ Len(dd.cleaner.original_df) = 3
    /\ \A i \in 1..3 :
          Sig(dd.cleaner.original_df[i], dd.hash) = Sig(dd.cleaner.original_df[1], dd.hash)

Defined(v) == ~IsNa(v)
OutliersCalled == call.fn = "remove_outliers" /\ call.done
BoundsOrdered ==
    LET Q1 == call.bounds[1]
        Q3 == call.bounds[2]
        lower == call.bounds[3]
        upper == call.bounds[4]
    IN  /\ Defined(Q1) /\ Defined(Q3) /\ Defined(lower) /\ Defined(upper)
        /\ lower <= Q1 /\ Q1 <= Q3 /\ Q3 <= upper

\* C11, as stated: for every dataset and every multiplier k >= 0 the bounds
\* remove_outliers computes satisfy lower <= Q1 <= Q3 <= upper.
C11_BoundsOrdered ==
    OutliersCalled => BoundsOrdered

\* C11, amended: the same for every dataset that holds at least one row with
\* a defined price per area; with no such row the four values are NaN,
\* none of the comparisons holds, and no row is touched.
C11_BoundsOrderedWhenDefined ==
    OutliersCalled =>
        IF \E i \in 1..Len(call.cleaner.original_df) :
               Defined(PricePerSqm(call.cleaner.original_df[i]))
        THEN BoundsOrdered
        ELSE /\ \A j \in 1..4 : IsNa(call.bounds[j])
             /\ Labels(call.cleaner.df) = Labels(call.cleaner.original_df)

\* C11 witness: bounds computed with a positive multiplier from a frame
\* whose quartiles differ, so that lower < Q1 < Q3 < upper.
C11_Witness ==
    /\ OutliersCalled
    /\ call.std_mult > 0
    /\ Defined(call.bounds[1])
    /\ call.bounds[3] < call.bounds[1]
    /\ call.bounds[1] < call.bounds[2]
    /\ call.bounds[2] < call.bounds[4]

Loaded == call.fn = "_load_and_clean" /\ call.done
ClusterIds == {call.df[i].neighborhood_cluster : i \in 1..Len(call.df)} \ {NaN}
RowsOf(c) == {i \in 1..Len(call.df) : call.df[i].neighborhood_cluster = c}
DistanceSum(c) == SumOver([i \in RowsOf(c) |-> call.df[i].distance_from_center], RowsOf(c))
\* mean distance of cluster a < mean distance of cluster b
Nearer(a, b) ==
    DistanceSum(a) * Cardinality(RowsOf(b)) < DistanceSum(b) * Cardinality(RowsOf(a))

\* C12: whatever ids the clustering step gave the clusters, the cluster with
\* the minimum mean distance from the center gets the first (innermost) of
\* the zone names, here the first of "Cluster 0", "Cluster 1", "Cluster 2".
C12_InnermostGetsFirstName ==
    Loaded =>
        \A c \in ClusterIds :
            (\A b \in ClusterIds \ {c} : Nearer(c, b)) =>
                \A i \in RowsOf(c) : call.df[i].neighborhood = "Cluster 0"

\* The median of a feature over the whole loaded dataset, doubled.
DatasetMedian(col) == Median2([i \in 1..Len(df) |-> df[i][col]])

\* The cell a feature vector should hold for row r: the value, or the
\* dataset's median where the value is missing.
Imputed(r, col) == IF IsNa(r[col]) THEN DatasetMedian(col) ELSE 2 * r[col]

\* C13: every feature vector built at query time, the rows of the matrix of
\* get_comps and the one vector of get_estimate, holds no null: each missing
\* value is replaced by the median of its feature over the whole loaded
\* dataset.
C13_NullsFilledWithDatasetMedian ==
    LET C == {c \in 1..Len(FEATURE_COLS) : FEATURE_COLS[c] \in DOMAIN df[1]}
    IN  /\ EstimateAnswered =>
              \A c \in C :
                  /\ ~IsNa(resp.features[1][c])
                  /\ resp.features[1][c] = Imputed(TargetRow, FEATURE_COLS[c])
        /\ CompsAnswered =>
              \A i \in 1..Len(df), c \in C :
                  /\ ~IsNa(resp.features[i][c])
                  /\ resp.features[i][c] = Imputed(df[i], FEATURE_COLS[c])

\* C14: the shared dataset is read-only at query time: no comps, valuation,
\* listing-filter, listing-detail, filter-options or market-insights call,
\* successful or failing, changes its rows, columns or values.
C14_DatasetReadOnly == [][df' = df]_vars

\* C14 witness: market insights were answered from a dataset of several
\* rows.
C14_Witness ==
    /\ resp.kind = "market" /\ resp.status = 200
    /\ resp.body.neighborhood_count >= 2
    /\ Len(df) >= 2

\* C15: the dataset and the model are loaded once per process: over any
\* sequence of get_df / get_model calls, every call after the first one that
\* returned normally returns the same value, and the source is not read
\* again, whatever happens to the files meanwhile.
C15_LoadedOnce ==
    /\ Cardinality(loader.df_returned) <= 1
    /\ Cardinality(loader.model_returned) <= 1
    /\ loader.reread = 0
    /\ loader.df_cache.cached => loader.df_returned = {loader.df_cache.value}
    /\ loader.model_cache.cached => loader.model_returned = {loader.model_cache.value}

\* Both functions have been called, get_df again after the data file was
\* replaced and get_model again after a model file appeared.
C15_Witness ==
    /\ loader.calls = MaxCalls
    /\ loader.df_cache.cached
    /\ loader.data_file.exists
    /\ LoadAndClean(loader.data_file.content) # loader.df_cache.value
    /\ loader.model_cache.cached
    /\ loader.model_cache.value = "None"
    /\ loader.model_file.exists
    /\ loader.last.fn = "get_df"
    /\ ~loader.last.raised

\* The stages of clean(), in the order it calls them.
StageOrder ==
    <<"standardize_formats", "handle_missing", "check_impossible_values",
      "filter_location", "extract_areas", "extract_prices", "remove_duplicates",
      "remove_outliers", "validate_ranges", "finalize">>

\* The stages clean() has called so far (a stage that raised was called).
StagesInvoked ==
    IF pc = "idle" THEN 0
    ELSE IF pc = "done" THEN Len(StageOrder)
    ELSE IF pc = "raised" THEN 7
    ELSE (CHOOSE k \in 1..Len(StageOrder) : StageOrder[k] = pc) - 1

\* The stage that writes an entry of a given type.
StageOfEntry(type) ==
    IF type \in {"removed_negative_price", "removed_zero_area", "removed_negative_bedrooms"}
    THEN "check_impossible_values"
    ELSE IF type = "location_filter" THEN "filter_location"
    ELSE IF type = "areas_extracted" THEN "extract_areas"
    ELSE IF type = "prices_extracted" THEN "extract_prices"
    ELSE IF type = "duplicates_removed" THEN "remove_duplicates"
    ELSE IF type \in {"outliers_deleted", "outliers_capped", "outliers_flagged"}
    THEN "remove_outliers"
    ELSE "validate_ranges"

\* C16: after any sequence of cleaning-stage invocations the audit log holds
\* exactly one entry per stage invocation, in invocation order, each with
\* the stage's affected-row count (also when it is 0).
C16_OneEntryPerStage ==
    /\ Len(cleaner.log) = StagesInvoked
    /\ \A k \in 1..Len(cleaner.log) :
          /\ k <= Len(StageOrder)
          /\ StageOfEntry(cleaner.log[k].type) = StageOrder[k]
          /\ cleaner.log[k].count >= 0

ExtractCalled == call.fn = "extract" /\ call.done

\* The per-area rates of a text: an amount, a currency, "/" or "per", an
\* area unit.
RatesOf(text) ==
    {text[i].v : i \in {j \in 1..(Len(text) - 3) :
        /\ IsNumber(text[j]) /\ IsCurrency(text[j + 1])
        /\ IsPer(text[j + 2]) /\ IsM2(text[j + 3])}}

\* The currency-amount occurrences of a text, by the place of the amount.
TotalsOf(text) == {i \in 2..Len(text) : IsCurrency(text[i - 1]) /\ IsNumber(text[i])}

\* C17: PriceExtractor.extract returns the rate of a per-area rate pattern,
\* flagged per-area, whenever the description holds one, whatever totals it
\* holds; otherwise the last currency-amount occurrence, flagged total, when
\* it is above 100, and no price when it is at most 100 or nothing matches.
C17_RateElseLastTotal ==
    ExtractCalled =>
        LET text == Lower(call.text)
        IN  IF RatesOf(text) # {}
            THEN call.result[2] = "per_sqm" /\ call.result[1] \in RatesOf(text)
            ELSE IF TotalsOf(text) # {} /\ text[SetMax(TotalsOf(text))].v > 100
            THEN call.result = <<text[SetMax(TotalsOf(text))].v, "total">>
            ELSE call.result = <<NaN, "None">>

ExtractBestCalled == call.fn = "extract_best" /\ call.done

\* The plausibility window of an area, its two ends included.
InWindow(v) == 15 <= v /\ v <= 300

\* The plausible areas a text gives under "<amount> m2 <kind>".
AreasBefore(text, kind) ==
    {text[i].v : i \in {j \in 1..(Len(text) - 2) :
        /\ IsNumber(text[j]) /\ IsM(text[j + 1]) /\ text[j + 2].w = kind
        /\ InWindow(text[j].v)}}

\* The plausible areas a text gives under "bruto <amount> m2".
AreasAfterBruto(text) ==
    {text[i].v : i \in {j \in 2..(Len(text) - 1) :
        /\ text[j - 1].w = "bruto" /\ IsNumber(text[j]) /\ IsBeginsWithM(text[j + 1])
        /\ InWindow(text[j].v)}}

\* C18: AreaExtractor.extract_best returns a plausible "bruto" match in
\* preference to any "neto" match, the maximum among the plausible matches
\* of one pattern, never a value outside the 15-300 window, and it accepts
\* every value inside the window.
C18_BrutoFirstMaxPlausible ==
    ExtractBestCalled =>
        LET text == Lower(call.text)
            bruto1 == AreasBefore(text, "bruto")
            bruto2 == AreasAfterBruto(text)
            neto == AreasBefore(text, "neto")
        IN  /\ ~IsNa(call.result[1]) => InWindow(call.result[1])
            /\ IF bruto1 # {} THEN call.result = <<SetMax(bruto1), "bruto">>
               ELSE IF bruto2 # {} THEN call.result = <<SetMax(bruto2), "bruto">>
               ELSE IF neto # {} THEN call.result = <<SetMax(neto), "neto">>
               ELSE call.result = <<NaN, "None">>

ListingsAnswered == resp.kind = "listings" /\ resp.status = 200

\* Page p of a list, per_page entries to a page.
PageOf(ids, p, per_page) ==
    SubSeq(ids, (p - 1) * per_page + 1,
           IF p * per_page < Len(ids) THEN p * per_page ELSE Len(ids))

\* Pages 1..p of a list, one after the other.
RECURSIVE PagesJoined(_, _, _)
PagesJoined(ids, p, per_page) ==
    IF p = 0 THEN <<>>
    ELSE PagesJoined(ids, p - 1, per_page) \o PageOf(ids, p, per_page)

\* C19: filter_listings pagination partitions the filtered result: total is
\* the number of rows matching all filters, whatever the page; pages is
\* ceil(total / per_page), and 0 when total is 0; pages 1..pages are
\* consecutive slices of at most per_page rows that, joined, are the whole
\* filtered list; a page beyond the last is empty, total unchanged.
C19_PagesPartitionFiltered ==
    ListingsAnswered =>
        /\ resp.total = Cardinality({i \in 1..Len(df) : Matches(df[i], resp.filter)})
        /\ resp.total = Len(resp.filtered)
        /\ resp.total = 0 => resp.pages = 0
        /\ resp.total > 0 => /\ resp.pages * resp.per_page >= resp.total
                             /\ (resp.pages - 1) * resp.per_page < resp.total
        /\ Len(resp.listings) <= resp.per_page
        /\ resp.listings = PageOf(resp.filtered, resp.page, resp.per_page)
        /\ resp.page > resp.pages => resp.listings = <<>>
        /\ resp.page <= resp.pages => resp.listings # <<>>
        /\ PagesJoined(resp.filtered, resp.pages, resp.per_page) = resp.filtered

\* The last of two pages, one row on it, was asked for.
C19_Witness ==
    /\ ListingsAnswered
    /\ resp.total = 3
    /\ resp.per_page = 2
    /\ resp.page = 2
    /\ resp.pages = 2
    /\ Len(resp.listings) = 1

\* Rows i and j of the frame handed to remove_duplicates share a signature.
SameBucket(i, j) ==
    Sig(dd.cleaner.original_df[i], dd.hash) = Sig(dd.cleaner.original_df[j], dd.hash)

\* The Jaccard similarity of their words of four letters or more is
\* strictly above 0.8.
JaccardAbove(i, j) ==
    LET w1 == LongWords(dd.cleaner.original_df[i].description)
        w2 == LongWords(dd.cleaner.original_df[j].description)
    IN  /\ w1 # {} /\ w2 # {}
        /\ 5 * Cardinality(w1 \cap w2) > 4 * Cardinality(w1 \cup w2)

\* C20: remove_duplicates compares only rows of one signature; of each such
\* pair with a Jaccard similarity strictly above 0.8 it drops the row with
\* the larger index, and no other row; so the lowest-index row of every
\* signature bucket is retained, and rows of different buckets never cause
\* each other's removal.
C20_DropsLargerIndexWithinBucket ==
    LET before == dd.cleaner.original_df
        N == 1..Len(before)
        dropped == {before[j].idx : j \in {k \in N :
                       \E i \in N : /\ before[i].idx < before[k].idx
                                    /\ SameBucket(i, k) /\ JaccardAbove(i, k)}}
    IN  /\ Len(dd.cleaner.log) = 1 =>
              Labels(dd.cleaner.df) = Labels(before) \ dropped
        /\ Len(dd.cleaner.log) >= 1 =>
              \A i \in N :
                  (\A j \in N : SameBucket(i, j) => before[i].idx <= before[j].idx)
                      => before[i].idx \in Labels(dd.cleaner.df)

\* C20 witness: one pass dropped the later row of a similar pair of one
\* bucket and kept a row of another bucket that is as similar to the first.
C20_Witness ==
    /\ Len(dd.cleaner.log) = 1
    /\ dd.cleaner.log[1].count = 1
    /\ Len(dd.cleaner.original_df) = 3
    /\ Len(dd.cleaner.df) = 2
    /\ \E i, j, k \in 1..3 :
          /\ i < j /\ SameBucket(i, j) /\ JaccardAbove(i, j)
          /\ ~SameBucket(i, k) /\ JaccardAbove(i, k)
          /\ dd.cleaner.original_df[j].idx \notin Labels(dd.cleaner.df)
          /\ dd.cleaner.original_df[k].idx \in Labels(dd.cleaner.df)

\* The row of a frame that carries a given index label.
RowAt(frame, label) == frame[CHOOSE i \in 1..Len(frame) : frame[i].idx = label]

Usable(records) ==
    SelectSeq(records, LAMBDA r : Defined(r.price_eur) /\ Defined(r.area_sqm))

CompEntryMade == call.fn = "comp_entry" /\ call.done

\* The coordinates of a row are there: the columns exist and hold values.
HasCoordinates(r) == call.has_coords /\ Defined(r.latitude) /\ Defined(r.longitude)

\* C23: every comp gets exactly one non-empty distance label: "< 1 km" for a
\* distance below 1, "1-3 km" from 1 to below 3, "3-7 km" from 3 to below 7,
\* "> 7 km" from 7 on, by the great-circle distance to the target when both
\* listings have coordinates, and "Nearby" whenever the coordinates of the
\* target or of the comp are unavailable, the column absent or the value
\* missing.
C23_DistanceLabelOrNearby ==
    CompEntryMade =>
        LET m == (Abs(call.comp_row.latitude - call.target.latitude) * 111195) \div 1000
        IN  IF HasCoordinates(call.target) /\ HasCoordinates(call.comp_row)
            THEN call.entry.distance_label =
                    (IF m < 1000 THEN "< 1 km" ELSE IF m < 3000 THEN "1-3 km"
                     ELSE IF m < 7000 THEN "3-7 km" ELSE "> 7 km")
            ELSE call.entry.distance_label = "Nearby"

\* C24: the similarity explanation of a comp is never empty and is built in
\* a fixed order: the bedroom phrase (equal counts, else counts one apart),
\* then the size phrase (areas less than 10% apart, else less than 20%), then
\* the cluster phrase (equal cluster ids); the phrases are joined with
\* commas and the first letter is capitalised; with no phrase it is
\* "Comparable overall features".
C24_ReasonInFixedOrder ==
    CompEntryMade =>
        LET t == call.target
            c == call.comp_row
            bed == IF t.beds = c.beds THEN "same number of bedrooms"
                   ELSE IF Abs(t.beds - c.beds) = 1 THEN "similar bedroom count"
                   ELSE ""
            Bed == IF t.beds = c.beds THEN "Same number of bedrooms"
                   ELSE "Similar bedroom count"
            size == IF 100 * Abs(t.sqm - c.sqm) < 10 * t.sqm THEN "very similar size"
                    ELSE IF 100 * Abs(t.sqm - c.sqm) < 20 * t.sqm THEN "similar size"
                    ELSE ""
            Size == IF 100 * Abs(t.sqm - c.sqm) < 10 * t.sqm THEN "Very similar size"
                    ELSE "Similar size"
            zone == IF Defined(t.neighborhood_cluster)
                       /\ t.neighborhood_cluster = c.neighborhood_cluster
                    THEN "same neighborhood cluster" ELSE ""
            then(x) == IF x = "" THEN "" ELSE ", " \o x
            expected ==
                IF bed # "" THEN Bed \o then(size) \o then(zone)
                ELSE IF size # "" THEN Size \o then(zone)
                ELSE IF zone # "" THEN "Same neighborhood cluster"
                ELSE "Comparable overall features"
        IN  /\ call.entry.similarity_reason # ""
            /\ call.entry.similarity_reason = expected

\* C24 witness: a comp one bedroom away from the target, exactly 10% smaller
\* and of the target's cluster.
C24_Witness ==
    /\ CompEntryMade
    /\ call.target.sqm = 100 /\ call.comp_row.sqm = 90
    /\ call.entry.similarity_reason =
          "Similar bedroom count, similar size, same neighborhood cluster"

\* The position in df of the k-th comp of the response (ids are unique).
CompPos(k) == CHOOSE i \in 1..Len(df) : df[i].id = resp.comps[k]

\* C25: get_comps lists the comps in non-decreasing order of normalised
\* Euclidean distance to the target, and among rows at equal distance the
\* row earlier in the dataset is selected and listed first.
C25_CompsNearestFirstStable ==
    CompsAnswered =>
        LET dists == Dists(df, TargetPos(df, resp.listing_id))
            K == 1..Len(resp.comps)
        IN  /\ \A k \in K : k + 1 \in K =>
                   KeyLeq(dists[CompPos(k)], dists[CompPos(k + 1)])
            /\ \A k \in K : \A j \in 1..Len(df) :
                   (j < CompPos(k) /\ dists[j] = dists[CompPos(k)]) =>
                       \E h \in K : h < k /\ CompPos(h) = j

\* extract_prices has run at least once on the frame of the call.
PricesExtracted == call.fn = "extract_prices" /\ call.calls > 0

\* new - old, the disagreement of rate * area with the old price, is above
\* 20% of the old price.
Disagrees(rate, r) ==
    5 * Abs(rate * PriceUnit * r.area_sqm - r.price_eur) > r.price_eur

\* C26 as stated: extract_prices overwrites a row's price with rate * area
\* exactly when the description yields a per-area rate, the row's area and
\* old price are positive and |rate * area - old| / old > 0.20; in every
\* other case the price is unchanged; the area of no row is changed.
C26_OverwritesAboveTwentyPercent ==
    PricesExtracted =>
        /\ Len(call.cleaner.df) = Len(call.before)
        /\ \A i \in 1..Len(call.before) :
              LET old == call.before[i]
                  now == call.cleaner.df[i]
                  got == PriceExtract(old.description)
                  overwrites == /\ got[2] = "per_sqm"
                                /\ Gt(old.area_sqm, 0) /\ Gt(old.price_eur, 0)
                                /\ Disagrees(got[1], old)
              IN  /\ now.price_eur = IF overwrites
                                     THEN got[1] * PriceUnit * old.area_sqm
                                     ELSE old.price_eur
                  /\ now.area_sqm = old.area_sqm

\* C26, amended: extract_prices overwrites a row's price with rate * area
\* exactly when the description yields a non-zero per-area rate, the row's
\* area and old price are positive and |rate * area - old| / old > 0.20
\* strictly; in every other case (a disagreement of exactly 20% included)
\* the price is unchanged; the area of no row is changed.
C26_OverwritesNonZeroRateAboveTwentyPercent ==
    PricesExtracted =>
        /\ Len(call.cleaner.df) = Len(call.before)
        /\ \A i \in 1..Len(call.before) :
              LET old == call.before[i]
                  now == call.cleaner.df[i]
                  got == PriceExtract(old.description)
                  overwrites == /\ got[2] = "per_sqm" /\ got[1] # 0
                                /\ Gt(old.area_sqm, 0) /\ Gt(old.price_eur, 0)
                                /\ Disagrees(got[1], old)
              IN  /\ now.price_eur = IF overwrites
                                     THEN got[1] * PriceUnit * old.area_sqm
                                     ELSE old.price_eur
                  /\ now.area_sqm = old.area_sqm

\* C26 witness: one call that overwrote the price of a row off by more than
\* 20% and left alone a row off by exactly 20%.
C26_Witness ==
    /\ PricesExtracted
    /\ Len(call.before) = 2
    /\ call.before[1].description = DescRateOnly
    /\ call.before[1].area_sqm = 80
    /\ call.before[1].price_eur = 59000 * PriceUnit
    /\ call.cleaner.df[1].price_eur = 72000 * PriceUnit
    /\ call.before[2].description = DescRateOnly
    /\ call.before[2].area_sqm = 80
    /\ call.before[2].price_eur = 60000 * PriceUnit
    /\ call.cleaner.df[2].price_eur = 60000 * PriceUnit

\* The frame check_impossible_values is handed in clean(): the raw frame
\* after standardize_formats and handle_missing.
BeforeImpossibleValues == HandleMissing(StandardizeFormats(NewCleaner(raw))).df

\* A row the impossible-value filter is to remove.
Impossible(r) ==
    \/ Le(r.price_eur, 0)
    \/ Le(r.area_sqm, 0)
    \/ Lt(r.bedrooms, 0)
    \/ Lt(r.bathrooms, 0)

\* C27: the impossible-value filter removes exactly the rows that have a
\* non-positive price, a non-positive area or a negative bedroom or bathroom
\* count: none of them remains, and every other row (a row whose area is
\* missing among them) is retained whatever the other rows hold.
C27_RemovesExactlyImpossibleRows ==
    pc = "filter_location" =>
        /\ cleaner.df = Filter(BeforeImpossibleValues,
                               Where(BeforeImpossibleValues, LAMBDA r : ~Impossible(r)))
        /\ \A i \in 1..Len(cleaner.df) : ~Impossible(cleaner.df[i])

\* The place of a stage in the chain of clean().
StagePlace(stage) == CHOOSE k \in 1..Len(StageOrder) : StageOrder[k] = stage

\* C28: the cleaning stages always execute in the fixed order
\* impossible-value filter, location filter, area and price backfill,
\* duplicate filter, outlier filter, range validation: every step of a run
\* goes from one stage to the next of the chain (or ends the run when the
\* stage raises), the audit entries of two stages appear in that relative
\* order, and the outlier filter never runs on a frame that still holds a
\* row with non-positive price or area.
C28_StagesInFixedOrder ==
    /\ [](\A j, k \in 1..Len(cleaner.log) :
             j < k => StagePlace(StageOfEntry(cleaner.log[j].type))
                        <= StagePlace(StageOfEntry(cleaner.log[k].type)))
    /\ [](pc = "remove_outliers" =>
             \A i \in 1..Len(cleaner.df) :
                ~Le(cleaner.df[i].price_eur, 0) /\ ~Le(cleaner.df[i].area_sqm, 0))
    /\ [][pc' # pc =>
             \/ pc' = "raised"
             \/ pc = "finalize" /\ pc' = "done"
             \/ /\ pc \in Range(StageOrder) /\ pc' \in Range(StageOrder)
                /\ StagePlace(pc') = StagePlace(pc) + 1]_vars

\* C28 witness: a run on a frame with a row of price zero and a row of
\* negative area that has come past the outlier filter, with the entries of
\* the impossible-value filter first in the log and the outlier filter's last.
C28_Witness ==
    /\ pc = "validate_ranges"
    /\ \E i, j \in 1..Len(raw) : Le(raw[i].price_eur, 0) /\ Le(raw[j].area_sqm, 0)
    /\ Len(cleaner.df) > 0
    /\ cleaner.log[1].type = "removed_negative_price"
    /\ StageOfEntry(cleaner.log[Len(cleaner.log)].type) = "remove_outliers"

\* The position of a column in the fixed feature order.
FeaturePos(col) == CHOOSE c \in 1..Len(FEATURE_COLS) : FEATURE_COLS[c] = col

\* A feature vector (cells doubled) carries the area, the bedroom count and
\* the bathroom count of a listing of the dataset.
CarriesListing(vector, listing) ==
    /\ vector[FeaturePos("area_sqm")] = 2 * listing.sqm
    /\ vector[FeaturePos("bedrooms")] = 2 * listing.beds
    /\ vector[FeaturePos("bathrooms")] = 2 * listing.baths

\* C29: for every listing of the loader's dataset (columns sqm, beds,
\* baths), the feature vector _build_feature_matrix builds carries the
\* listing's area, bedroom count and bathroom count in the area_sqm,
\* bedrooms and bathrooms positions of the fixed feature order.
C29_FeaturesCarryAreaBedsBaths ==
    /\ CompsAnswered =>
          \A i \in 1..Len(df) : CarriesListing(resp.features[i], df[i])
    /\ EstimateAnswered => CarriesListing(resp.features[1], TargetRow)

\* remove_duplicates has run on the frame, and row k of the frame is gone.
Dropped(k) ==
    /\ Len(dd.cleaner.log) >= 1
    /\ dd.cleaner.original_df[k].idx \notin Labels(dd.cleaner.df)

Retained(k) == dd.cleaner.original_df[k].idx \in Labels(dd.cleaner.df)

\* Row i is a duplicate of row k: the same signature bucket and a Jaccard
\* similarity above 0.8.
DuplicateOf(i, k) == i # k /\ SameBucket(i, k) /\ JaccardAbove(i, k)

\* C30 as stated: remove_duplicates never removes a row without a surviving
\* duplicate: every dropped row has a Jaccard similarity above 0.8 with
\* some row of its signature bucket that is retained in the output.
C30_DroppedHasRetainedDuplicate ==
    \A k \in 1..Len(dd.cleaner.original_df) :
        Dropped(k) =>
            \E i \in 1..Len(dd.cleaner.original_df) : Retained(i) /\ DuplicateOf(i, k)

\* A chain of duplicates, each earlier than the one before, leads from row k
\* to a retained row.
RECURSIVE ChainToRetained(_)
ChainToRetained(k) ==
    \E i \in 1..Len(dd.cleaner.original_df) :
        /\ dd.cleaner.original_df[i].idx < dd.cleaner.original_df[k].idx
        /\ DuplicateOf(i, k)
        /\ (Retained(i) \/ ChainToRetained(i))

\* C30, amended: remove_duplicates never removes a row without an earlier
\* duplicate: every dropped row has a Jaccard similarity above 0.8 with
\* some earlier row of its signature bucket, and a chain of such rows leads
\* from it to a row that is retained in the output.
C30_DroppedHasChainToRetained ==
    \A k \in 1..Len(dd.cleaner.original_df) : Dropped(k) => ChainToRetained(k)

\* C30 witness: a pass dropped two rows of a bucket of three, the last of
\* which is a duplicate of the dropped row only, not of the retained one.
C30_Witness ==
    /\ Len(dd.cleaner.original_df) = 3
    /\ Retained(1) /\ Dropped(2) /\ Dropped(3)
    /\ DuplicateOf(1, 2) /\ DuplicateOf(2, 3) /\ ~DuplicateOf(1, 3)

====
